---- MODULE Spec2Model ----
(***************************************************************************)
(* The incremental ingestion controller of carey-nieuwhof/scrape-youtube:  *)
(* main, scrapeChannel, ingestVideo, ensureChannelRecord and               *)
(* withDatabaseRetry, over a store of channel and video rows, driven by    *)
(* one yt-dlp subprocess per run.  Node runs every handler to completion   *)
(* on one thread, so one action is one handler (or one continuation of an  *)
(* async function after an await that waits for I/O).                      *)
(***************************************************************************)
EXTENDS Integers, Sequences, FiniteSets, TLC

VARIABLES
    channels,            \* store: rows of cn_youtube.channels
    videos,              \* store: rows of cn_youtube.videos
    run,                 \* number of the current run (also its scrapedAt instant)
    mainPc,              \* position of main(): idle, scrape, cleanup, crashed, exited
    unhandledRejections, \* how this Node process treats an unhandled rejection
    promise,             \* the Promise<number> scrapeChannel returns
    parsedCount,         \* scrapeChannel: let parsedCount
    stdoutBuffer,        \* scrapeChannel: let stdoutBuffer (a sequence of atoms)
    tasks,               \* every task enqueueVideo dispatched, in dispatch order
    ingestionError,      \* scrapeChannel: let ingestionError (0 = null, else the task that threw it)
    closePc,             \* close handler: none, draining (at allSettled), done
    stats,               \* IngestionContext.stats
    knownIds,            \* IngestionContext.knownIds
    ctxChannel,          \* IngestionContext.channel (the row's id; 0 = undefined)
    child,               \* the subprocess: state, child.killed, exit status not zero
    faults,              \* store errors raised so far in this run
    storedAtStart,       \* history: ids of the video rows in the store when the run started
    failOrder,           \* history: the tasks that failed, in the order they failed
    atAbort,             \* history: parsedCount and the tasks dispatched when a malformed
                         \* line first rejected the run (NoAbort before)
    processEnv,          \* main: the environment settings the strategy reads
    bootstrap,           \* main: bootstrapState, as the strategy planner reads it
    latestSortKey,       \* main: what getLatestDatabaseSortKey returned
    scrapeOptions,       \* main: the options passed to scrapeChannel, and its argument list
    retry,               \* one call of withDatabaseRetry: its loop and the wrapped operation
    loaded,              \* main: what loadExistingChannelState and createDownloadArchiveFile
                         \* returned, where the two are followed alone
    mainRun,             \* main: its steps from locateYtDlp to the end of the finally
                         \* block, where main is followed alone
    urlRun,              \* normalizeChannelUrl applied to a string, and to its own result
    classify,            \* one call of isTransientDatabaseError on an error object,
                         \* followed frame by frame
    emitted              \* history: what the subprocess has written in this run and the
                         \* lengths of the chunks it came in, where the output is
                         \* followed (on)

vars == <<channels, videos, run, mainPc, unhandledRejections, promise, parsedCount,
          stdoutBuffer, tasks, ingestionError, closePc, stats, knownIds, ctxChannel,
          child, faults, storedAtStart, failOrder, atAbort,
          processEnv, bootstrap, latestSortKey, scrapeOptions, retry, loaded,
          mainRun, urlRun, classify, emitted>>

\* the state of the steps of main that are followed alone
planVars == <<processEnv, bootstrap, latestSortKey, scrapeOptions, loaded, mainRun, urlRun,
              classify>>

----------------------------------------------------------------------------
(* Bounds of the model *)

MaxRuns == 2       \* runs of the script, one after the other (SpecFeed)
MaxRecords == 3    \* records parsed in one run (SpecFeed)
MaxParsed == 2     \* records parsed in the run (Spec)
MaxChunk == 3      \* atoms in one stdout chunk
MaxBuffer == 4     \* atoms held in stdoutBuffer when a chunk has been appended
MaxFaults == 2     \* store errors in one run
MaxOutput == 6     \* atoms the subprocess writes in one run, where its output is followed
DB_MAX_RETRIES == 2  \* CAREY_DB_MAX_RETRIES as configured for the runs checked

----------------------------------------------------------------------------
(* Payloads.  The subprocess output is a sequence of atoms: the text of a  *)
(* whole JSON object (named by a string), a text that is no JSON ("X"), a  *)
(* whitespace character (" ") and the newline ("\n").  A line of several   *)
(* atoms is no JSON either, so the subprocess of the model writes lines of *)
(* one atom at most.                                                       *)

Absent == "<absent>"
Undefined == "<undefined>"

RecordAtoms == {"ra", "rb", "rb2", "rblank", "rmissing"}
Atoms == {"ra", "rb", "rblank", "X", "\n"}    \* what the subprocess of Spec writes
FeedAtoms == {"ra", "rb", "\n"}               \* what the subprocess of SpecFeed writes

\* JSON.parse of the text of one object
JsonParse(atom) ==
    CASE atom = "ra" ->
           [id |-> "a", title |-> "t1", channel_url |-> Absent, channel |-> "n1",
            channel_id |-> "UC1", extractor |-> "youtube", extractor_key |-> "Youtube",
            ie_key |-> Absent]
      [] atom = "rb" ->
           [id |-> "b", title |-> Absent, channel_url |-> "u1/videos", channel |-> Absent,
            channel_id |-> Absent, extractor |-> Absent, extractor_key |-> Absent,
            ie_key |-> Absent]
      [] atom = "rb2" ->
           [id |-> "b", title |-> "t2", channel_url |-> "u2/", channel |-> "n2",
            channel_id |-> "UC2", extractor |-> "youtube:tab", extractor_key |-> "YoutubeTab",
            ie_key |-> "Youtube"]
      [] atom = "rblank" ->
           [id |-> "  ", title |-> "t1", channel_url |-> Absent, channel |-> "n2",
            channel_id |-> "  ", extractor |-> "  ", extractor_key |-> Absent,
            ie_key |-> Absent]
      [] atom = "rmissing" ->
           [id |-> Absent, title |-> "t2", channel_url |-> "u1/videos", channel |-> "n1",
            channel_id |-> "UC1", extractor |-> "youtube", extractor_key |-> Absent,
            ie_key |-> Absent]

CHANNEL_URL == "u1/videos"

StringTrim(s) == IF s = "  " THEN "" ELSE s

toNonEmptyString(value) ==
    IF value = Absent THEN Undefined
    ELSE IF StringTrim(value) = "" THEN Undefined ELSE StringTrim(value)

normalizeChannelUrl(rawUrl) ==
    CASE rawUrl = "u1/videos" -> "u1/"
      [] rawUrl = "u2/videos" -> "u2/"
      [] OTHER -> rawUrl

extractHandleFromUrl(url) ==
    CASE url \in {"u1/", "u1/videos"} -> "@h1"
      [] url \in {"u2/", "u2/videos"} -> "@h2"
      [] OTHER -> Undefined

----------------------------------------------------------------------------
(* The store *)

buildChannelInsertPayload(video, fallbackChannelUrl, scrapedAt) ==
    LET given == toNonEmptyString(video.channel_url)
        canonicalSource == IF given # Undefined THEN given ELSE fallbackChannelUrl
        canonicalUrl == normalizeChannelUrl(canonicalSource)
    IN  [canonicalUrl |-> canonicalUrl,
         externalId |-> toNonEmptyString(video.channel_id),
         handle |-> extractHandleFromUrl(canonicalUrl),
         displayName |-> toNonEmptyString(video.channel),
         updatedAt |-> scrapedAt]

mapRawVideoToInsert(atom, channelId, scrapedAt) ==
    LET video == JsonParse(atom)
        id == toNonEmptyString(video.id)
    IN  IF id = Undefined THEN <<>>      \* null
        ELSE <<[id |-> id,
              channelId |-> channelId,
              title |-> IF toNonEmptyString(video.title) # Undefined
                        THEN toNonEmptyString(video.title) ELSE id,
              scrapedAt |-> scrapedAt,
              rawData |-> atom]>>

\* insert(channels).values(p).onConflictDoUpdate({target: canonicalUrl, set: ...}).returning()
ChannelUpsertRow(chs, p) ==
    IF \E c \in chs : c.canonicalUrl = p.canonicalUrl
    THEN LET old == CHOOSE c \in chs : c.canonicalUrl = p.canonicalUrl
         IN  [old EXCEPT !.externalId = p.externalId, !.handle = p.handle,
                         !.displayName = p.displayName, !.updatedAt = p.updatedAt]
    ELSE [id |-> Cardinality(chs) + 1, canonicalUrl |-> p.canonicalUrl,
          externalId |-> p.externalId, handle |-> p.handle, displayName |-> p.displayName,
          createdAt |-> p.updatedAt, updatedAt |-> p.updatedAt]

\* faulty variant: the conflict on the canonical URL is not taken, a second row is added
ChannelUpsertSecondRow(chs, p) ==
    chs \cup {[id |-> Cardinality(chs) + 1, canonicalUrl |-> p.canonicalUrl,
               externalId |-> p.externalId, handle |-> p.handle,
               displayName |-> p.displayName,
               createdAt |-> p.updatedAt, updatedAt |-> p.updatedAt]}

ChannelUpsert(chs, p) ==
    {c \in chs : c.canonicalUrl # p.canonicalUrl} \cup {ChannelUpsertRow(chs, p)}

\* faulty variant: the insert reports a row even when the id was there
VideoInsertReturningAlways(vs, mapped) == {mapped.id}

\* insert(videos).values(mapped).onConflictDoNothing().returning({id})
VideoInsertReturning(vs, mapped) ==
    IF \E v \in vs : v.id = mapped.id THEN {} ELSE {mapped.id}

\* faulty variant: the insert overwrites the row of the id (an upsert)
VideoInsertOverwrite(vs, mapped) == {v \in vs : v.id # mapped.id} \cup {mapped}

VideoInsert(vs, mapped) ==
    IF \E v \in vs : v.id = mapped.id THEN vs ELSE vs \cup {mapped}

----------------------------------------------------------------------------
(* loadExistingChannelState: every snapshot the loader can return for the  *)
(* store (findFirst and the row scan have no ORDER BY, so the row they     *)
(* meet first is any row that matches).                                    *)

StripAt(handle) == IF handle = "@h1" THEN "h1" ELSE IF handle = "@h2" THEN "h2" ELSE handle

doesRawVideoMatchChannel(rawData, normalizedChannelUrl) ==
    LET candidate == toNonEmptyString(JsonParse(rawData).channel_url)
    IN  candidate # Undefined /\ normalizeChannelUrl(candidate) = normalizedChannelUrl

Snapshot(channelId, strategy, rows) ==
    [channel |-> channelId, channelMatchStrategy |-> strategy,
     knownVideoIds |-> {r.id : r \in {x \in rows : x.channelId = channelId}}]

\* faulty variant: the handle is tried before the canonical URL
loadExistingChannelStateHandleFirst(chs, vs, channelUrl) ==
    LET normalizedChannelUrl == normalizeChannelUrl(channelUrl)
        handleFromUrl == extractHandleFromUrl(normalizedChannelUrl)
        canonical == {c \in chs : c.canonicalUrl = normalizedChannelUrl}
        withAt == {c \in chs : handleFromUrl # Undefined /\ c.handle = handleFromUrl}
        withoutAt == {c \in chs : handleFromUrl # Undefined
                                   /\ c.handle = StripAt(handleFromUrl)}
        byHandle == IF withAt # {} THEN withAt ELSE withoutAt
        rowsMatchingUrl == {r \in vs : doesRawVideoMatchChannel(r.rawData, normalizedChannelUrl)}
        candidateRows == IF rowsMatchingUrl # {} THEN rowsMatchingUrl ELSE vs
        adopted == {r.channelId : r \in candidateRows} \cap {c.id : c \in chs}
    IN  IF byHandle # {}
        THEN {Snapshot(c.id, "handle", vs) : c \in byHandle}
        ELSE IF canonical # {}
        THEN {Snapshot(c.id, "canonical", vs) : c \in canonical}
        ELSE IF adopted # {}
        THEN {Snapshot(id, IF rowsMatchingUrl # {} THEN "raw_data" ELSE "fallback",
                       candidateRows) : id \in adopted}
        ELSE {[channel |-> 0, channelMatchStrategy |-> "none", knownVideoIds |-> {}]}

loadExistingChannelState(chs, vs, channelUrl) ==
    LET normalizedChannelUrl == normalizeChannelUrl(channelUrl)
        handleFromUrl == extractHandleFromUrl(normalizedChannelUrl)
        canonical == {c \in chs : c.canonicalUrl = normalizedChannelUrl}
        withAt == {c \in chs : handleFromUrl # Undefined /\ c.handle = handleFromUrl}
        withoutAt == {c \in chs : handleFromUrl # Undefined
                                   /\ c.handle = StripAt(handleFromUrl)}
        byHandle == IF withAt # {} THEN withAt ELSE withoutAt
        rowsMatchingUrl == {r \in vs : doesRawVideoMatchChannel(r.rawData, normalizedChannelUrl)}
        candidateRows == IF rowsMatchingUrl # {} THEN rowsMatchingUrl ELSE vs
        adopted == {r.channelId : r \in candidateRows} \cap {c.id : c \in chs}
    IN  IF canonical # {}
        THEN {Snapshot(c.id, "canonical", vs) : c \in canonical}
        ELSE IF byHandle # {}
        THEN {Snapshot(c.id, "handle", vs) : c \in byHandle}
        ELSE IF adopted # {}
        THEN {Snapshot(id, IF rowsMatchingUrl # {} THEN "raw_data" ELSE "fallback",
                       candidateRows) : id \in adopted}
        ELSE {[channel |-> 0, channelMatchStrategy |-> "none", knownVideoIds |-> {}]}

----------------------------------------------------------------------------
(* Tasks: one per call of options.onVideo.  pc is where the async function *)
(* is suspended (channel: in ensureChannelRecord's upsert; insert: in the  *)
(* video insert) or how it ended (invalid: no id; skipped: the id was in   *)
(* knownIds; conflict: the insert returned no row; inserted; failed: it    *)
(* threw).                                                                 *)

Settled(t) == t.pc \in {"inserted", "skipped", "conflict", "invalid", "failed"}

\* faulty variant: the close handler does not wait for the tasks
InFlightForgotten == {}

\* inFlightIngestions: the tasks that have not settled
InFlight == {i \in 1..Len(tasks) : ~Settled(tasks[i])}
Alive == mainPc \in {"scrape", "cleanup"}
maxAttempts == IF DB_MAX_RETRIES > 1 THEN DB_MAX_RETRIES ELSE 1

\* faulty variant: a record whose id is known is sent to the store all the same
ingestAfterChannelUnchecked(atom, channelId, st) ==
    LET mapped == mapRawVideoToInsert(atom, channelId, run)
    IN  IF mapped = <<>>
        THEN [pc |-> "invalid", stats |-> [st EXCEPT !.invalid = @ + 1]]
        ELSE [pc |-> "insert", stats |-> st]

\* faulty variant: a known id is counted as inserted
ingestAfterChannelMiscounted(atom, channelId, st) ==
    LET mapped == mapRawVideoToInsert(atom, channelId, run)
    IN  IF mapped = <<>>
        THEN [pc |-> "invalid", stats |-> [st EXCEPT !.invalid = @ + 1]]
        ELSE IF mapped[1].id \in knownIds
        THEN [pc |-> "skipped", stats |-> [st EXCEPT !.inserted = @ + 1]]
        ELSE [pc |-> "insert", stats |-> st]

\* ingestVideo from mapRawVideoToInsert to the insert: where it stops, and the stats
ingestAfterChannel(atom, channelId, st) ==
    LET mapped == mapRawVideoToInsert(atom, channelId, run)
    IN  IF mapped = <<>>
        THEN [pc |-> "invalid", stats |-> [st EXCEPT !.invalid = @ + 1]]
        ELSE IF mapped[1].id \in knownIds
        THEN [pc |-> "skipped", stats |-> [st EXCEPT !.skippedExisting = @ + 1]]
        ELSE [pc |-> "insert", stats |-> st]

\* ingestVideo up to its first wait: ensureChannelRecord returns context.channel or upserts
ingestVideo(atom, st) ==
    IF ctxChannel # 0
    THEN ingestAfterChannel(atom, ctxChannel, st)
    ELSE [pc |-> "channel", stats |-> st]

\* faulty variant: the callback does not count the record as parsed
enqueueVideoUncounted(c, atom) ==
    IF ingestionError # 0 THEN c
    ELSE LET r == ingestVideo(atom, c.stats)
         IN  [tasks |-> Append(c.tasks, [atom |-> atom, pc |-> r.pc, attempt |-> 1,
                                         channelId |-> ctxChannel]),
              stats |-> r.stats]

\* enqueueVideo, with the onVideo callback main passes; c is [tasks, stats]
enqueueVideo(c, atom) ==
    IF ingestionError # 0 THEN c
    ELSE LET r == ingestVideo(atom, [c.stats EXCEPT !.parsed = @ + 1])
         IN  [tasks |-> Append(c.tasks, [atom |-> atom, pc |-> r.pc, attempt |-> 1,
                                         channelId |-> ctxChannel]),
              stats |-> r.stats]

----------------------------------------------------------------------------
(* Line buffering *)

IsSpace(atom) == atom \in {" ", "\n"}

RECURSIVE TrimStart(_)
TrimStart(s) == IF s # <<>> /\ IsSpace(Head(s)) THEN TrimStart(Tail(s)) ELSE s

RECURSIVE TrimEnd(_)
TrimEnd(s) ==
    IF s # <<>> /\ IsSpace(s[Len(s)]) THEN TrimEnd(SubSeq(s, 1, Len(s) - 1)) ELSE s

\* faulty variant: the white space around a line is kept
TrimNothing(s) == s

Trim(s) == TrimEnd(TrimStart(s))

\* faulty variant: the last newline of the buffer is taken
IndexOfNewlineLast(buf) ==
    IF \E i \in 1..Len(buf) : buf[i] = "\n"
    THEN CHOOSE i \in 1..Len(buf) : buf[i] = "\n" /\ \A j \in (i + 1)..Len(buf) : buf[j] # "\n"
    ELSE 0

\* indexOf("\n"), counted from 1; 0 when there is none
IndexOfNewline(buf) ==
    IF \E i \in 1..Len(buf) : buf[i] = "\n"
    THEN CHOOSE i \in 1..Len(buf) : buf[i] = "\n" /\ \A j \in 1..(i - 1) : buf[j] # "\n"
    ELSE 0

\* the text a sequence of atoms spells: the two halves of the text of rb, one after the
\* other, are that text
TextOf(atoms) == IF atoms = <<"rb.head", "rb.tail">> THEN <<"rb">> ELSE atoms

\* JSON.parse succeeds on the text of exactly one object
JsonOk(line) == Len(line) = 1 /\ line[1] \in RecordAtoms

\* the while loop of the stdout data handler; c is [buf, parsedCount, q, threw]
RECURSIVE dataLoop(_)
dataLoop(c) ==
    LET newlineIndex == IndexOfNewline(c.buf)
        line == TextOf(Trim(SubSeq(c.buf, 1, newlineIndex - 1)))
        rest == SubSeq(c.buf, newlineIndex + 1, Len(c.buf))
    IN  IF newlineIndex = 0 THEN c
        ELSE IF line = <<>> THEN dataLoop([c EXCEPT !.buf = rest])
        ELSE IF JsonOk(line)
        THEN dataLoop([c EXCEPT !.buf = rest, !.parsedCount = @ + 1,
                                !.q = enqueueVideo(@, line[1])])
        ELSE [c EXCEPT !.buf = rest, !.threw = TRUE]

----------------------------------------------------------------------------
(* The promise scrapeChannel returns, and main awaiting it *)

Pending == [state |-> "pending", kind |-> "none", n |-> 0]

\* resolve(...) or reject(...): the first call settles the promise, a later one does nothing
Settle(state, kind, n) ==
    IF promise.state = "pending" THEN [state |-> state, kind |-> kind, n |-> n] ELSE promise

\* main: the await of scrapeChannel ends and the finally block starts its cleanup
MainAfter(p) ==
    IF mainPc = "scrape" /\ p.state # "pending" THEN "cleanup" ELSE mainPc

\* child.kill(): the signal is sent, and child.killed set, while the process has not exited
Kill(c) == IF c.state = "running" THEN [c EXCEPT !.killed = TRUE] ELSE c

\* child.exitCode is null until the process exits (and for ever when a signal ended it)
abortChild(c) == IF ~c.killed THEN Kill(c) ELSE c

NoAbort == [aborted |-> FALSE, parsed |-> 0, dispatched |-> 0]

\* the first malformed line is the one remembered
Mark(parsed, dispatched) ==
    IF atAbort.aborted THEN atAbort
    ELSE [aborted |-> TRUE, parsed |-> parsed, dispatched |-> dispatched]

\* faulty variant: every failure overwrites the error
captureErrorLast(current, error) == error

\* the catch handler of enqueueVideo: if (!ingestionError) ingestionError = error
captureError(current, error) == IF current = 0 THEN error ELSE current

\* faulty variant: every exit status that is not zero fails the run
exitFailedAnyStatus(nonZero, count) == nonZero

\* the close handler: code !== 0 && parsedCount === 0
exitFailed(nonZero, count) == nonZero /\ count = 0

NoStats == [parsed |-> 0, inserted |-> 0, skippedExisting |-> 0, invalid |-> 0]

\* the planner and the retry loop before they have run
NoEnv == [CAREY_YTDLP_EXTRA_ARGS |-> <<>>, CAREY_DISABLE_AUTO_DATEAFTER |-> Absent]
NoCoverage == [defined |-> FALSE, maxPlaylistIndex |-> <<>>, maxPlaylistCount |-> <<>>]
NoBootstrap == [knownVideoIds |-> {}, coverage |-> NoCoverage, archiveEntries |-> <<>>]
NoSortKey == [present |-> FALSE, uploadDate |-> <<>>, uploadedAt |-> <<>>]
NoOptions == [pc |-> "idle"]
NoRetry == [pc |-> "idle"]
NoLoaded == [pc |-> "idle"]
NoMainRun == [pc |-> "idle"]
NoUrlRun == [pc |-> "idle"]
NoClassify == [pc |-> "idle"]
NoEmitted == [on |-> FALSE, atoms |-> <<>>, chunks |-> <<>>]

----------------------------------------------------------------------------
(* Actions *)

\* the store before the first run
InitStoreEmpty ==
    /\ channels = {}
    /\ videos = {}

\* the script before its first run
InitProcess ==
    /\ run = 0
    /\ mainPc = "idle"
    /\ unhandledRejections = "unset"
    /\ promise = Pending
    /\ parsedCount = 0
    /\ stdoutBuffer = <<>>
    /\ tasks = <<>>
    /\ ingestionError = 0
    /\ closePc = "none"
    /\ stats = NoStats
    /\ knownIds = {}
    /\ ctxChannel = 0
    /\ child = [state |-> "closed", killed |-> FALSE, nonZero |-> FALSE]
    /\ faults = 0
    /\ storedAtStart = {}
    /\ failOrder = <<>>
    /\ atAbort = NoAbort

InitRun == InitStoreEmpty /\ InitProcess

\* the planner has not run
InitPlanIdle ==
    /\ processEnv = NoEnv
    /\ bootstrap = NoBootstrap
    /\ latestSortKey = NoSortKey
    /\ scrapeOptions = NoOptions
    /\ loaded = NoLoaded
    /\ mainRun = NoMainRun
    /\ urlRun = NoUrlRun
    /\ classify = NoClassify

Init == InitRun /\ InitPlanIdle /\ retry = NoRetry /\ emitted = NoEmitted

\* main up to the call of scrapeChannel, and scrapeChannel up to the spawn
StartRun(maxRuns) ==
    /\ mainPc \in {"idle", "exited", "crashed"}
    /\ run < maxRuns
    /\ \E bootstrapState \in loadExistingChannelState(channels, videos, CHANNEL_URL) :
          /\ knownIds' = bootstrapState.knownVideoIds
          /\ ctxChannel' = bootstrapState.channel
    /\ run' = run + 1
    /\ mainPc' = "scrape"
    /\ unhandledRejections' = "unset"
    /\ promise' = Pending
    /\ parsedCount' = 0
    /\ stdoutBuffer' = <<>>
    /\ tasks' = <<>>
    /\ ingestionError' = 0
    /\ closePc' = "none"
    /\ stats' = NoStats
    /\ child' = [state |-> "running", killed |-> FALSE, nonZero |-> FALSE]
    /\ faults' = 0
    /\ storedAtStart' = {v.id : v \in videos}
    /\ failOrder' = <<>>
    /\ atAbort' = NoAbort
    /\ emitted' = [emitted EXCEPT !.atoms = <<>>, !.chunks = <<>>]
    /\ UNCHANGED <<planVars, retry, channels, videos>>

\* no line of the output holds two atoms, but the two halves of a text that a chunk
\* boundary may part
OneAtomLines(buf) ==
    /\ \A j \in 1..(Len(buf) - 1) :
          \/ buf[j] = "\n"
          \/ buf[j + 1] = "\n" /\ buf[j] # "rb.head"
          \/ buf[j] = "rb.head" /\ buf[j + 1] = "rb.tail"
    /\ \A j \in 1..Len(buf) : buf[j] = "rb.tail" => (j > 1 /\ buf[j - 1] = "rb.head")

Chunks(atoms) == UNION {[1..n -> atoms] : n \in 1..MaxChunk}

\* child.stdout.on("data")
StdoutData(chunk, maxParsed) ==
    /\ Alive
    /\ child.state = "running"
    /\ Len(stdoutBuffer) + Len(chunk) <= MaxBuffer
    /\ OneAtomLines(stdoutBuffer \o chunk)
    /\ emitted.on => Len(emitted.atoms) + Len(chunk) <= MaxOutput
    /\ emitted' = IF emitted.on
                  THEN [emitted EXCEPT !.atoms = @ \o chunk, !.chunks = Append(@, Len(chunk))]
                  ELSE emitted
    /\ LET c == dataLoop([buf |-> stdoutBuffer \o chunk, parsedCount |-> parsedCount,
                          q |-> [tasks |-> tasks, stats |-> stats], threw |-> FALSE])
           p == IF c.threw THEN Settle("rejected", "parseError", 0) ELSE promise
       IN  /\ c.parsedCount <= maxParsed
           /\ stdoutBuffer' = c.buf
           /\ parsedCount' = c.parsedCount
           /\ tasks' = c.q.tasks
           /\ stats' = c.q.stats
           /\ child' = IF c.threw THEN Kill(child) ELSE child
           /\ promise' = p
           /\ mainPc' = MainAfter(p)
           /\ atAbort' = IF c.threw THEN Mark(c.parsedCount, Len(c.q.tasks)) ELSE atAbort
    /\ UNCHANGED <<planVars, retry, channels, videos, run, unhandledRejections, ingestionError, closePc,
                   knownIds, ctxChannel, faults, storedAtStart, failOrder>>

\* the subprocess ends (with a status of its own, or by the signal kill() sent) and
\* closes its output: child.on("close") up to await Promise.allSettled(inFlightIngestions)
Close(nonZero, maxParsed) ==
    /\ Alive
    /\ child.state = "running"
    /\ LET remaining == TextOf(Trim(stdoutBuffer))
           ok == remaining = <<>> \/ JsonOk(remaining)
           q == IF remaining # <<>> /\ ok
                THEN enqueueVideo([tasks |-> tasks, stats |-> stats], remaining[1])
                ELSE [tasks |-> tasks, stats |-> stats]
           p == IF ok THEN promise ELSE Settle("rejected", "trailingError", 0)
       IN  /\ parsedCount' = IF remaining # <<>> /\ ok THEN parsedCount + 1 ELSE parsedCount
           /\ parsedCount' <= maxParsed
           /\ tasks' = q.tasks
           /\ stats' = q.stats
           /\ closePc' = IF ok THEN "draining" ELSE "done"
           /\ promise' = p
           /\ mainPc' = MainAfter(p)
           /\ atAbort' = IF ok THEN atAbort ELSE Mark(parsedCount, Len(tasks))
    /\ child' = [child EXCEPT !.state = "closed", !.nonZero = nonZero]
    /\ UNCHANGED <<emitted, planVars, retry, channels, videos, run, unhandledRejections, stdoutBuffer, ingestionError,
                   knownIds, ctxChannel, faults, storedAtStart, failOrder>>

\* the close handler after Promise.allSettled: reject or resolve
Drained ==
    /\ Alive
    /\ closePc = "draining"
    /\ InFlight = {}
    /\ LET p == IF ingestionError # 0
                THEN Settle("rejected", "taskError", ingestionError)
                ELSE IF exitFailed(child.nonZero, parsedCount)
                THEN Settle("rejected", "exitError", 0)
                ELSE Settle("resolved", "count", parsedCount)
       IN  /\ promise' = p
           /\ mainPc' = MainAfter(p)
    /\ closePc' = "done"
    /\ UNCHANGED <<emitted, planVars, retry, channels, videos, run, unhandledRejections, parsedCount, stdoutBuffer,
                   tasks, ingestionError, stats, knownIds, ctxChannel, child, faults,
                   storedAtStart, failOrder, atAbort>>

\* ensureChannelRecord after its upsert returned, and ingestVideo on to its insert
ChannelUpserted(i) ==
    /\ Alive
    /\ i \in 1..Len(tasks)
    /\ tasks[i].pc = "channel"
    /\ LET insertPayload == buildChannelInsertPayload(JsonParse(tasks[i].atom),
                                                     normalizeChannelUrl(CHANNEL_URL), run)
           record == ChannelUpsertRow(channels, insertPayload)
           r == ingestAfterChannel(tasks[i].atom, record.id, stats)
       IN  /\ channels' = ChannelUpsert(channels, insertPayload)
           /\ ctxChannel' = record.id
           /\ tasks' = [tasks EXCEPT ![i] = [@ EXCEPT !.pc = r.pc, !.attempt = 1,
                                                      !.channelId = record.id]]
           /\ stats' = r.stats
    /\ UNCHANGED <<emitted, planVars, retry, videos, run, mainPc, unhandledRejections, promise, parsedCount,
                   stdoutBuffer, ingestionError, closePc, knownIds, child, faults,
                   storedAtStart, failOrder, atAbort>>

\* ingestVideo after its insert returned
VideoInserted(i) ==
    /\ Alive
    /\ i \in 1..Len(tasks)
    /\ tasks[i].pc = "insert"
    /\ LET mapped == mapRawVideoToInsert(tasks[i].atom, tasks[i].channelId, run)[1]
           insertedRows == VideoInsertReturning(videos, mapped)
       IN  /\ videos' = VideoInsert(videos, mapped)
           /\ knownIds' = knownIds \cup {mapped.id}
           /\ IF insertedRows = {}
              THEN /\ stats' = [stats EXCEPT !.skippedExisting = @ + 1]
                   /\ tasks' = [tasks EXCEPT ![i] = [@ EXCEPT !.pc = "conflict"]]
              ELSE /\ stats' = [stats EXCEPT !.inserted = @ + 1]
                   /\ tasks' = [tasks EXCEPT ![i] = [@ EXCEPT !.pc = "inserted"]]
    /\ UNCHANGED <<emitted, planVars, retry, channels, run, mainPc, unhandledRejections, promise, parsedCount,
                   stdoutBuffer, ingestionError, closePc, ctxChannel, child, faults,
                   storedAtStart, failOrder, atAbort>>

\* withDatabaseRetry: the store operation of task i raises; the error is retried, or it
\* is thrown, leaves ingestVideo, and reaches the catch handler of enqueueVideo
\* For the rejected task, task.finally(...) of trackIngestionTask returns a promise that
\* rejects too and that nothing handles: Node raises it as an uncaught exception and
\* ends the process (mode "throw", the default) unless the process was started to warn
\* only (mode "warn"); the mode is fixed for the process and first read here.
\* Node raises it once the promise reactions that are due have run: when the close
\* handler was waiting on this task alone, its allSettled ends and it rejects the run
\* before the process ends (drained).
StoreError(i, transient, mode) ==
    /\ Alive
    /\ i \in 1..Len(tasks)
    /\ tasks[i].pc \in {"channel", "insert"}
    /\ faults < MaxFaults
    /\ faults' = faults + 1
    /\ IF transient /\ tasks[i].attempt # maxAttempts
       THEN /\ tasks' = [tasks EXCEPT ![i] = [@ EXCEPT !.attempt = @ + 1]]
            /\ mode = "warn"
            /\ UNCHANGED <<ingestionError, child, failOrder, unhandledRejections, mainPc,
                           promise, closePc>>
       ELSE /\ tasks' = [tasks EXCEPT ![i] = [@ EXCEPT !.pc = "failed"]]
            /\ failOrder' = Append(failOrder, i)
            /\ ingestionError' = captureError(ingestionError, i)
            /\ child' = IF ingestionError = 0 THEN abortChild(child) ELSE child
            /\ unhandledRejections \in {"unset", mode}
            /\ unhandledRejections' = mode
            /\ mainPc' = IF mode = "throw" THEN "crashed" ELSE mainPc
            /\ LET drained == mode = "throw" /\ closePc = "draining" /\ InFlight = {i}
               IN  /\ promise' = IF drained
                                 THEN Settle("rejected", "taskError",
                                             captureError(ingestionError, i))
                                 ELSE promise
                   /\ closePc' = IF drained THEN "done" ELSE closePc
    /\ UNCHANGED <<emitted, planVars, retry, channels, videos, run, parsedCount, stdoutBuffer,
                   stats, knownIds, ctxChannel, storedAtStart, atAbort>>

\* main's finally block ends and the Node process with it, nothing being left on the
\* event loop
ProcessExit ==
    /\ mainPc = "cleanup"
    /\ child.state = "closed"
    /\ InFlight = {}
    /\ closePc = "done"
    /\ mainPc' = "exited"
    /\ UNCHANGED <<emitted, planVars, retry, channels, videos, run, unhandledRejections, promise, parsedCount,
                   stdoutBuffer, tasks, ingestionError, closePc, stats, knownIds,
                   ctxChannel, child, faults, storedAtStart, failOrder, atAbort>>

\* one run from the empty store: malformed lines, records without id, store errors
Next ==
    \/ StartRun(1)
    \/ \E chunk \in Chunks(Atoms) : StdoutData(chunk, MaxParsed)
    \/ \E nonZero \in BOOLEAN : Close(nonZero, MaxParsed)
    \/ Drained
    \/ \E i \in 1..MaxParsed : ChannelUpserted(i)
    \/ \E i \in 1..MaxParsed : VideoInserted(i)
    \/ \E i \in 1..MaxParsed, transient \in BOOLEAN, mode \in {"throw", "warn"} :
          StoreError(i, transient, mode)
    \/ ProcessExit

Spec == Init /\ [][Next]_vars

\* runs one after the other on the same store: well-formed feeds, no store error
NextFeed ==
    \/ StartRun(MaxRuns)
    \/ \E chunk \in Chunks(FeedAtoms) : StdoutData(chunk, MaxRecords)
    \/ \E nonZero \in BOOLEAN : Close(nonZero, MaxRecords)
    \/ Drained
    \/ \E i \in 1..MaxRecords : ChannelUpserted(i)
    \/ \E i \in 1..MaxRecords : VideoInserted(i)
    \/ ProcessExit

SpecFeed == Init /\ [][NextFeed]_vars

\* runs one after the other on the same store, where a later run meets the ids of an
\* earlier one with other metadata and another embedded channel URL, and store errors
\* end a run early
RerunAtoms == {"rb", "rb2", "\n"}

NextRerun ==
    \/ StartRun(MaxRuns)
    \/ \E chunk \in Chunks(RerunAtoms) : StdoutData(chunk, MaxParsed)
    \/ \E nonZero \in BOOLEAN : Close(nonZero, MaxParsed)
    \/ Drained
    \/ \E i \in 1..MaxParsed : ChannelUpserted(i)
    \/ \E i \in 1..MaxParsed : VideoInserted(i)
    \/ \E i \in 1..MaxParsed, transient \in BOOLEAN, mode \in {"throw", "warn"} :
          StoreError(i, transient, mode)
    \/ ProcessExit

SpecRerun == Init /\ [][NextRerun]_vars

\* withDatabaseRetry around the video insert, where the failure strikes after the store
\* committed the row (the connection is lost before the answer arrives): the row is in
\* the store, the operation raises, and the error is retried (the insert is issued
\* again) or thrown as in StoreError
StoreErrorAfterCommit(i, transient, mode) ==
    /\ Alive
    /\ i \in 1..Len(tasks)
    /\ tasks[i].pc = "insert"
    /\ faults < MaxFaults
    /\ faults' = faults + 1
    /\ videos' = VideoInsert(videos,
                             mapRawVideoToInsert(tasks[i].atom, tasks[i].channelId, run)[1])
    /\ IF transient /\ tasks[i].attempt # maxAttempts
       THEN /\ tasks' = [tasks EXCEPT ![i] = [@ EXCEPT !.attempt = @ + 1]]
            /\ mode = "warn"
            /\ UNCHANGED <<ingestionError, child, failOrder, unhandledRejections, mainPc,
                           promise, closePc>>
       ELSE /\ tasks' = [tasks EXCEPT ![i] = [@ EXCEPT !.pc = "failed"]]
            /\ failOrder' = Append(failOrder, i)
            /\ ingestionError' = captureError(ingestionError, i)
            /\ child' = IF ingestionError = 0 THEN abortChild(child) ELSE child
            /\ unhandledRejections \in {"unset", mode}
            /\ unhandledRejections' = mode
            /\ mainPc' = IF mode = "throw" THEN "crashed" ELSE mainPc
            /\ LET drained == mode = "throw" /\ closePc = "draining" /\ InFlight = {i}
               IN  /\ promise' = IF drained
                                 THEN Settle("rejected", "taskError",
                                             captureError(ingestionError, i))
                                 ELSE promise
                   /\ closePc' = IF drained THEN "done" ELSE closePc
    /\ UNCHANGED <<emitted, planVars, retry, channels, run, parsedCount,
                   stdoutBuffer, stats, knownIds, ctxChannel, storedAtStart, atAbort>>

\* one run from the empty store over a well-formed feed of two records that embed
\* different channel URLs (ra none, so the URL of the run; rb2 another one), where a
\* store operation may fail before the store applied it or after the store committed it
NextCommit ==
    \/ StartRun(1)
    \/ \E chunk \in Chunks({"ra", "rb2", "\n"}) : StdoutData(chunk, MaxParsed)
    \/ \E nonZero \in BOOLEAN : Close(nonZero, MaxParsed)
    \/ Drained
    \/ \E i \in 1..MaxParsed : ChannelUpserted(i)
    \/ \E i \in 1..MaxParsed : VideoInserted(i)
    \/ \E i \in 1..MaxParsed, transient \in BOOLEAN, mode \in {"throw", "warn"} :
          StoreError(i, transient, mode)
    \/ \E i \in 1..MaxParsed, transient \in BOOLEAN, mode \in {"throw", "warn"} :
          StoreErrorAfterCommit(i, transient, mode)
    \/ ProcessExit

SpecCommit == Init /\ [][NextCommit]_vars

\* one run from the empty store as in Spec, where the subprocess can always end (the
\* last record of the run may be the one the close handler finds in the buffer)
NextLive ==
    \/ StartRun(1)
    \/ \E chunk \in Chunks(Atoms) : StdoutData(chunk, MaxParsed - 1)
    \/ \E nonZero \in BOOLEAN : Close(nonZero, MaxParsed)
    \/ Drained
    \/ \E i \in 1..MaxParsed : ChannelUpserted(i)
    \/ \E i \in 1..MaxParsed : VideoInserted(i)
    \/ \E i \in 1..MaxParsed, transient \in BOOLEAN, mode \in {"throw", "warn"} :
          StoreError(i, transient, mode)
    \/ ProcessExit

\* the subprocess ends and closes its output in the end (also after kill()), every store
\* operation returns in the end unless it raised for good, and the event loop runs the
\* handlers that are due; the subprocess need not write, and the store need not fail
Fairness ==
    /\ WF_vars(\E nonZero \in BOOLEAN : Close(nonZero, MaxParsed))
    /\ WF_vars(Drained)
    /\ WF_vars(ProcessExit)
    /\ \A i \in 1..MaxParsed : WF_vars(ChannelUpserted(i))
    /\ \A i \in 1..MaxParsed : WF_vars(VideoInserted(i))

SpecLive == Init /\ [][NextLive]_vars /\ Fairness

\* one run whose output is followed atom by atom: well-formed lines (the text of rb in
\* two halves), empty lines, lines of white space, a last line without its newline or
\* cut short, cut into chunks in every way
LineAtoms == {"ra", "rb.head", "rb.tail", " ", "\n"}

InitLines ==
    /\ InitRun
    /\ InitPlanIdle
    /\ retry = NoRetry
    /\ emitted = [on |-> TRUE, atoms |-> <<>>, chunks |-> <<>>]

NextLines ==
    \/ StartRun(1)
    \/ \E chunk \in Chunks(LineAtoms) : StdoutData(chunk, MaxRecords)
    \/ \E nonZero \in BOOLEAN : Close(nonZero, MaxRecords)
    \/ Drained
    \/ \E i \in 1..MaxRecords : ChannelUpserted(i)
    \/ \E i \in 1..MaxRecords : VideoInserted(i)
    \/ ProcessExit

SpecLines == InitLines /\ [][NextLines]_vars

----------------------------------------------------------------------------
(* withDatabaseRetry, one call followed alone.  The wrapped operation is a  *)
(* sequence of outcomes, one per invocation: a result, or an error (with    *)
(* its code, its message and its cause).                                    *)

MaxRetryConfig == 3   \* the largest DB_MAX_RETRIES tried; every call has that many outcomes

TRANSIENT_DB_ERROR_CODES == {"ECONNRESET", "ETIMEDOUT", "ECONNREFUSED", "EPIPE", "57P01"}
TransientMessages == {"connection reset", "server closed the connection",
                      "terminating connection"}

NoCause == [code |-> Absent, message |-> "", hasCause |-> FALSE]
ErrorReset == [code |-> "ECONNRESET", message |-> "other", hasCause |-> FALSE, cause |-> NoCause]
ErrorUnique == [code |-> "23505", message |-> "other", hasCause |-> FALSE, cause |-> NoCause]
ErrorClosed ==
    [code |-> Absent, message |-> "server closed the connection", hasCause |-> FALSE,
     cause |-> NoCause]
ErrorPlain == [code |-> Absent, message |-> "other", hasCause |-> FALSE, cause |-> NoCause]
\* a driver error wrapped by the query layer: no code of its own, or a code of its own
ErrorWrapsShutdown ==
    [code |-> Absent, message |-> "other", hasCause |-> TRUE,
     cause |-> [code |-> "57P01", message |-> "other", hasCause |-> FALSE]]
ErrorCodedWrapsTimeout ==
    [code |-> "QUERY", message |-> "other", hasCause |-> TRUE,
     cause |-> [code |-> "ETIMEDOUT", message |-> "other", hasCause |-> FALSE]]
ErrorWrapsUnique ==
    [code |-> Absent, message |-> "other", hasCause |-> TRUE,
     cause |-> [code |-> "23505", message |-> "other", hasCause |-> FALSE]]

Errors == {ErrorReset, ErrorUnique, ErrorClosed, ErrorPlain, ErrorWrapsShutdown,
           ErrorCodedWrapsTimeout, ErrorWrapsUnique}

RECURSIVE extractErrorCode(_)
extractErrorCode(error) ==
    IF error.code # Absent THEN error.code
    ELSE IF error.hasCause THEN extractErrorCode(error.cause)
    ELSE Undefined

RECURSIVE isTransientDatabaseError(_)
isTransientDatabaseError(error) ==
    IF extractErrorCode(error) \in TRANSIENT_DB_ERROR_CODES THEN TRUE
    ELSE IF error.hasCause /\ isTransientDatabaseError(error.cause) THEN TRUE
    ELSE error.message \in TransientMessages

MathMax(a, b) == IF a >= b THEN a ELSE b
MathMin(a, b) == IF a <= b THEN a ELSE b

\* faulty variant: the delay doubles without a cap
delayMsUncapped(attempt, base, max) == MathMax(50, base) * 2 ^ (attempt - 1)

\* Math.min(baseDelay * 2 ** (attempt - 1), maxDelay), with baseDelay and maxDelay as
\* withDatabaseRetry derives them from DB_RETRY_BASE_MS and DB_RETRY_MAX_MS
delayMs(attempt, base, max) ==
    LET baseDelay == MathMax(50, base)
        maxDelay == MathMax(baseDelay, max)
    IN  MathMin(baseDelay * 2 ^ (attempt - 1), maxDelay)

\* faulty variant: the last attempt is never recognised
isLastAttemptPastEnd(attempt, max) == attempt > max

isLastAttempt(attempt, max) == attempt = max

\* faulty variant: every error is retried until the last attempt
shouldRethrowOnLastOnly(attempt, max, error) == isLastAttempt(attempt, max)

\* the catch block: if (isLastAttempt || !isTransientDatabaseError(error)) throw error
shouldRethrow(attempt, max, error) ==
    isLastAttempt(attempt, max) \/ ~isTransientDatabaseError(error)

Outcomes == {[ok |-> TRUE, error |-> NoCause]} \cup {[ok |-> FALSE, error |-> e] : e \in Errors}

\* CAREY_DB_RETRY_BASE_MS and CAREY_DB_RETRY_MAX_MS as parsePositiveInt returns them:
\* a base below and above the floor of 50 ms, a maximum below the base, between the base
\* and its double, and above
RetryDelayConfigs == {<<20, 80>>, <<20, 150>>, <<100, 80>>, <<100, 150>>, <<100, 1000>>}

\* a call: DB_MAX_RETRIES, DB_RETRY_BASE_MS and DB_RETRY_MAX_MS as configured, and what
\* each invocation of the operation will do
RetryCalls ==
    {[pc |-> "try", configured |-> n, outcomes |-> o, attempt |-> 1, invoked |-> 0,
      slept |-> 0, result |-> 0, base |-> d[1], max |-> d[2], delays |-> <<>>] :
        n \in 0..MaxRetryConfig, o \in [1..MaxRetryConfig -> Outcomes],
        d \in RetryDelayConfigs}

InitRetry == InitRun /\ InitPlanIdle /\ retry \in RetryCalls /\ emitted = NoEmitted

\* one turn of the for loop: the operation is invoked and awaited; its result is returned,
\* or its error is thrown again, or the call goes to sleep
RetryInvoke ==
    /\ retry.pc = "try"
    /\ LET maxAttempts_ == MathMax(1, retry.configured)
           o == retry.outcomes[retry.attempt]
       IN  retry' = [retry EXCEPT
                       !.invoked = @ + 1,
                       !.pc = IF o.ok THEN "returned"
                              ELSE IF shouldRethrow(retry.attempt, maxAttempts_, o.error)
                              THEN "thrown" ELSE "sleep",
                       !.result = IF o.ok \/ shouldRethrow(retry.attempt, maxAttempts_, o.error)
                                  THEN retry.attempt ELSE @,
                       !.delays = IF o.ok \/ shouldRethrow(retry.attempt, maxAttempts_, o.error)
                                  THEN @
                                  ELSE Append(@, delayMs(retry.attempt, retry.base, retry.max))]
    /\ UNCHANGED <<emitted, planVars, channels, videos, run, mainPc, unhandledRejections, promise,
                   parsedCount, stdoutBuffer, tasks, ingestionError, closePc, stats,
                   knownIds, ctxChannel, child, faults, storedAtStart, failOrder, atAbort>>

\* the sleep ends: attempt += 1, and the loop goes on, or ends and the function throws
\* new Error("Database operation failed after retries") (result 0: no error of an attempt)
RetrySlept ==
    /\ retry.pc = "sleep"
    /\ retry' = [retry EXCEPT
                    !.slept = @ + 1,
                    !.attempt = @ + 1,
                    !.pc = IF retry.attempt + 1 <= MathMax(1, retry.configured)
                           THEN "try" ELSE "thrown"]
    /\ UNCHANGED <<emitted, planVars, channels, videos, run, mainPc, unhandledRejections, promise,
                   parsedCount, stdoutBuffer, tasks, ingestionError, closePc, stats,
                   knownIds, ctxChannel, child, faults, storedAtStart, failOrder, atAbort>>

NextRetry == RetryInvoke \/ RetrySlept

SpecRetry == InitRetry /\ [][NextRetry]_vars

----------------------------------------------------------------------------
(* The strategy planner: main from needsPlaylistBackfill to the call of     *)
(* scrapeChannel, and the argument list scrapeChannel builds.  An optional  *)
(* number or date is a sequence, empty when the value is undefined.  A date *)
(* string is the sequence of its digits; an instant is a day (counted from  *)
(* 1970-01-01) and the milliseconds into that day.                          *)

MaxPlaylist == 3    \* the largest playlist_index and playlist_count stored

\* an argument of the command line: a text, or the digits of a date
Arg(text) == [text |-> text, digits |-> <<>>]
DateArg(digits) == [text |-> "", digits |-> digits]

DateafterArgs == {"--dateafter", "--dateafter=20200101"}
startsWithDateafter(arg) == arg.text \in DateafterArgs

\* faulty variant: only the flag written alone is recognised
USER_SPECIFIED_DATEAFTER_EXACT(extraArgs) ==
    \E i \in 1..Len(extraArgs) : extraArgs[i].text = "--dateafter"

\* EXTRA_ARGS.some((arg) => arg.startsWith("--dateafter"))
USER_SPECIFIED_DATEAFTER(extraArgs) ==
    \E i \in 1..Len(extraArgs) : startsWithDateafter(extraArgs[i])

toLowerCase(raw) ==
    CASE raw = "TRUE" -> "true"
      [] raw = "Yes" -> "yes"
      [] raw = "Youtube" -> "youtube"
      [] raw = "YoutubeTab" -> "youtubetab"
      [] OTHER -> raw

isTruthy(raw) ==
    IF raw = Absent \/ raw = "" THEN FALSE
    ELSE toLowerCase(raw) \in {"1", "true", "yes", "on"}

\* faulty variant: the stored position has to pass the stored size
shouldUseAutoDateAfterStrict(state) ==
    IF Cardinality(state.knownVideoIds) = 0 THEN TRUE
    ELSE LET coverage == state.coverage
         IN  /\ coverage.defined
             /\ coverage.maxPlaylistCount # <<>>
             /\ coverage.maxPlaylistCount[1] > 0
             /\ coverage.maxPlaylistIndex # <<>>
             /\ coverage.maxPlaylistIndex[1] > coverage.maxPlaylistCount[1]

shouldUseAutoDateAfter(state) ==
    IF Cardinality(state.knownVideoIds) = 0 THEN TRUE
    ELSE LET coverage == state.coverage
         IN  /\ coverage.defined
             /\ coverage.maxPlaylistCount # <<>>
             /\ coverage.maxPlaylistCount[1] > 0
             /\ coverage.maxPlaylistIndex # <<>>
             /\ coverage.maxPlaylistIndex[1] >= coverage.maxPlaylistCount[1]

needsPlaylistBackfill(state) ==
    IF Cardinality(state.knownVideoIds) = 0 THEN FALSE
    ELSE LET coverage == state.coverage
         IN  IF \/ ~coverage.defined
                \/ coverage.maxPlaylistCount = <<>>
                \/ coverage.maxPlaylistCount[1] <= 0
             THEN FALSE
             ELSE Cardinality(state.knownVideoIds) < coverage.maxPlaylistCount[1]

\* Number(text) of a text of digits
RECURSIVE NumberOf(_)
NumberOf(digits) ==
    IF digits = <<>> THEN 0
    ELSE 10 * NumberOf(SubSeq(digits, 1, Len(digits) - 1)) + digits[Len(digits)]

\* `${n}`: the decimal digits of a natural number
RECURSIVE DigitsOf(_)
DigitsOf(n) == IF n < 10 THEN <<n>> ELSE Append(DigitsOf(n \div 10), n % 10)

\* `${n}`.padStart(2, "0")
padStart2(n) == IF n < 10 THEN <<0, n>> ELSE DigitsOf(n)

\* the day number of the first day of a month of the proleptic Gregorian calendar
DaysFromCivil(y, m, d) ==
    LET yy == IF m <= 2 THEN y - 1 ELSE y
        era == yy \div 400
        yoe == yy - era * 400
        mp == IF m > 2 THEN m - 3 ELSE m + 9
        doy == (153 * mp + 2) \div 5 + d - 1
        doe == yoe * 365 + yoe \div 4 - yoe \div 100 + doy
    IN  era * 146097 + doe - 719468

\* getUTCFullYear, getUTCMonth() + 1, getUTCDate of a day number
CivilFromDays(z) ==
    LET zz == z + 719468
        era == zz \div 146097
        doe == zz - era * 146097
        yoe == (doe - doe \div 1460 + doe \div 36524 - doe \div 146096) \div 365
        doy == doe - (365 * yoe + yoe \div 4 - yoe \div 100)
        mp == (5 * doy + 2) \div 153
        d == doy - (153 * mp + 2) \div 5 + 1
        m == IF mp < 10 THEN mp + 3 ELSE mp - 9
        y == yoe + era * 400
    IN  [year |-> IF m <= 2 THEN y + 1 ELSE y, month |-> m, day |-> d]

\* Date.UTC(year, month - 1, day) as a day number: a year below 100 is a year of the
\* 1900s, and a day past the end of the month runs into the next month
DateUTC(year, month, day) ==
    DaysFromCivil(IF year <= 99 THEN 1900 + year ELSE year, month, 1) + day - 1

\* parseUploadDate: the day number in a sequence, or the empty sequence for NaN
parseUploadDate(uploadDate) ==
    IF Len(uploadDate) # 8 THEN <<>>
    ELSE LET year == NumberOf(SubSeq(uploadDate, 1, 4))
             month == NumberOf(SubSeq(uploadDate, 5, 6))
             day == NumberOf(SubSeq(uploadDate, 7, 8))
         IN  IF month < 1 \/ month > 12 \/ day < 1 \/ day > 31 THEN <<>>
             ELSE <<DateUTC(year, month, day)>>

\* uploadDateStringToDate: the instant in a sequence, or the empty sequence for null
uploadDateStringToDate(uploadDate) ==
    IF uploadDate = <<>> THEN <<>>
    ELSE IF parseUploadDate(uploadDate) = <<>> THEN <<>>
    ELSE <<[day |-> parseUploadDate(uploadDate)[1], ms |-> 0]>>

formatDateAsYyyymmdd(date) ==
    LET civil == CivilFromDays(date.day)
    IN  DigitsOf(civil.year) \o padStart2(civil.month) \o padStart2(civil.day)

\* computeDateAfter: the cutoff in a sequence, or the empty sequence for undefined
computeDateAfter(sortKey) ==
    IF ~sortKey.present THEN <<>>
    ELSE LET fromUploadDate == IF sortKey.uploadDate # <<>>
                               THEN uploadDateStringToDate(sortKey.uploadDate) ELSE <<>>
             baseline == IF fromUploadDate # <<>> THEN fromUploadDate ELSE sortKey.uploadedAt
         IN  IF baseline = <<>> THEN <<>>
             ELSE <<formatDateAsYyyymmdd([baseline[1] EXCEPT !.day = @ - 1])>>

DEFAULT_ARCHIVE_EXTRACTOR_KEYS == <<"youtubetab", "youtube">>

NoArchive == [created |-> FALSE, lines |-> <<>>]

\* faulty variant: the id is written before the key
ArchiveLineIdFirst(normalized, id) == <<id, " ", normalized, "\n">>

\* one line of the archive file: `${normalized} ${entry.id}\n`
ArchiveLine(normalized, id) == <<normalized, " ", id, "\n">>

\* the loops of createDownloadArchiveFile over the entries from the e-th on and over the
\* keys of that entry from the k-th on; lines holds what was pushed (and seen) so far
RECURSIVE archiveLines(_, _, _, _)
archiveLines(entries, e, k, lines) ==
    IF e > Len(entries) THEN lines
    ELSE LET entry == entries[e]
             extractorKeys == IF Len(entry.extractorKeys) > 0 THEN entry.extractorKeys
                              ELSE DEFAULT_ARCHIVE_EXTRACTOR_KEYS
         IN  IF k > Len(extractorKeys) THEN archiveLines(entries, e + 1, 1, lines)
             ELSE LET normalized == toLowerCase(extractorKeys[k])
                      line == ArchiveLine(normalized, entry.id)
                  IN  IF normalized = "" \/ \E j \in 1..Len(lines) : lines[j] = line
                      THEN archiveLines(entries, e, k + 1, lines)
                      ELSE archiveLines(entries, e, k + 1, Append(lines, line))

\* createDownloadArchiveFile: the handle, with the lines written to the file, or
\* NoArchive for undefined
createDownloadArchiveFile(entries) ==
    IF Len(entries) = 0 THEN NoArchive
    ELSE LET lines == archiveLines(entries, 1, 1, <<>>)
         IN  IF Len(lines) = 0 THEN NoArchive ELSE [created |-> TRUE, lines |-> lines]

\* scrapeChannel: the argument list, with the default rate limit preset and no
\* CAREY_MAX_VIDEOS and no CAREY_YTDLP_VERBOSE
scrapeArgs(extraArgs, options) ==
    <<Arg("--ignore-errors"), Arg("--no-warnings"), Arg("--dump-json"),
      Arg("--skip-download"), Arg("--yes-playlist"), Arg("-t"), Arg("sleep")>>
    \o extraArgs
    \o (IF options.dateAfter # <<>>
        THEN <<Arg("--dateafter"), DateArg(options.dateAfter[1])>> ELSE <<>>)
    \o (IF options.reversePlaylist THEN <<Arg("--playlist-reverse")>> ELSE <<>>)
    \o (IF options.breakOnExisting THEN <<Arg("--break-on-existing")>> ELSE <<>>)
    \o (IF options.downloadArchivePath
        THEN <<Arg("--download-archive"), Arg("download-archive.txt")>> ELSE <<>>)
    \o <<Arg(CHANNEL_URL)>>

\* what the stored rows can have left for the planner
OptionalNat == {<<>>} \cup {<<n>> : n \in 0..MaxPlaylist}

Coverages ==
    {[defined |-> i # <<>> \/ c # <<>>, maxPlaylistIndex |-> i, maxPlaylistCount |-> c] :
        i \in OptionalNat, c \in OptionalNat}

UploadDates ==
    {<<>>, <<2, 0, 2, 4, 0, 1, 1, 5>>, <<2, 0, 2, 4, 0, 3, 0, 1>>, <<2, 0, 2, 4, 0, 1, 0, 1>>,
     <<2, 0, 2, 4, 1, 3, 0, 1>>, <<2, 0, 2, 4, 0, 1, 1>>}

\* 2024-01-10T00:00Z, 2024-01-15T23:00Z, 2024-01-20T12:00Z
UploadedAts ==
    {<<>>, <<[day |-> 19732, ms |-> 0]>>, <<[day |-> 19737, ms |-> 82800000]>>,
     <<[day |-> 19742, ms |-> 43200000]>>}

SortKeys ==
    {[present |-> d # <<>> \/ u # <<>>, uploadDate |-> d, uploadedAt |-> u] :
        d \in UploadDates, u \in UploadedAts}

ExtraArgs ==
    {<<>>, <<Arg("--dateafter"), Arg("20200101")>>, <<Arg("--dateafter=20200101")>>,
     <<Arg("--datebefore"), Arg("20250101")>>, <<Arg("--match-filter"), Arg("!is_live")>>}

DisableFlags == {Absent, "1", "TRUE", "0"}

\* faulty variant: the early stop is enabled in backfill mode too
breakOnExistingInBackfill(downloadArchiveHandle, state, backfillModeEnabled) ==
    downloadArchiveHandle /\ Cardinality(state.knownVideoIds) > 0

\* main: Boolean(downloadArchiveHandle && knownVideoIds.size > 0 && !backfillModeEnabled)
breakOnExisting(downloadArchiveHandle, state, backfillModeEnabled) ==
    /\ downloadArchiveHandle
    /\ Cardinality(state.knownVideoIds) > 0
    /\ ~backfillModeEnabled

\* the archive entries of one or two known ids, with or without a recorded extractor key
PlanEntries ==
    {<<[id |-> "a", extractorKeys |-> k]>> : k \in {<<>>, <<"youtube">>}}
    \cup {<<[id |-> "a", extractorKeys |-> k], [id |-> "b", extractorKeys |-> <<>>]>> :
             k \in {<<>>, <<"youtube">>}}

\* a channel without stored rows has no known id, no coverage and no sort key
InitPlan ==
    /\ InitRun
    /\ retry = NoRetry
    /\ scrapeOptions = NoOptions
    /\ loaded = NoLoaded
    /\ mainRun = NoMainRun
    /\ urlRun = NoUrlRun
    /\ classify = NoClassify
    /\ emitted = NoEmitted
    /\ processEnv \in {[CAREY_YTDLP_EXTRA_ARGS |-> x, CAREY_DISABLE_AUTO_DATEAFTER |-> f] :
                          x \in ExtraArgs, f \in DisableFlags}
    /\ \/ /\ bootstrap = NoBootstrap
          /\ latestSortKey = NoSortKey
       \/ /\ bootstrap \in {[knownVideoIds |-> {e[i].id : i \in 1..Len(e)}, coverage |-> c,
                              archiveEntries |-> e] : e \in PlanEntries, c \in Coverages}
          /\ latestSortKey \in SortKeys

\* main, lines 384 to 440, and the argument list of scrapeChannel
Plan ==
    /\ scrapeOptions.pc = "idle"
    /\ LET downloadArchiveHandle == createDownloadArchiveFile(bootstrap.archiveEntries).created
           backfillModeEnabled == needsPlaylistBackfill(bootstrap)
           breakOnExistingEnabled ==
               breakOnExisting(downloadArchiveHandle, bootstrap, backfillModeEnabled)
           autoDateAfterEnabled ==
               /\ ~isTruthy(processEnv.CAREY_DISABLE_AUTO_DATEAFTER)
               /\ ~USER_SPECIFIED_DATEAFTER(processEnv.CAREY_YTDLP_EXTRA_ARGS)
           canUseAutoDateAfter == shouldUseAutoDateAfter(bootstrap)
           dateAfter == IF autoDateAfterEnabled /\ canUseAutoDateAfter /\ latestSortKey.present
                        THEN computeDateAfter(latestSortKey) ELSE <<>>
           options == [dateAfter |-> dateAfter,
                       reversePlaylist |-> backfillModeEnabled,
                       breakOnExisting |-> breakOnExistingEnabled,
                       downloadArchivePath |-> downloadArchiveHandle]
       IN  scrapeOptions' = [pc |-> "planned",
                             canUseAutoDateAfter |-> canUseAutoDateAfter,
                             dateAfter |-> dateAfter,
                             reversePlaylist |-> backfillModeEnabled,
                             breakOnExisting |-> breakOnExistingEnabled,
                             downloadArchivePath |-> downloadArchiveHandle,
                             args |-> scrapeArgs(processEnv.CAREY_YTDLP_EXTRA_ARGS, options)]
    /\ UNCHANGED <<emitted, classify, processEnv, bootstrap, latestSortKey, loaded, mainRun, urlRun, retry, channels,
                   videos, run,
                   mainPc, unhandledRejections, promise, parsedCount, stdoutBuffer, tasks,
                   ingestionError, closePc, stats, knownIds, ctxChannel, child, faults,
                   storedAtStart, failOrder, atAbort>>

NextPlan == Plan

SpecPlan == InitPlan /\ [][NextPlan]_vars

----------------------------------------------------------------------------
(* The loader and the dedup archive: main from loadExistingChannelState to  *)
(* createDownloadArchiveFile, over a store that earlier runs (of this       *)
(* channel URL or of another) and other writers of the schema have left.    *)

MaxStoredChannels == 2    \* channel rows in the store the loader reads
MaxStoredVideos == 3      \* video rows in the store the loader reads

\* a channel row, as runs of the script at scrapedAt 1 write it
StoredChannel(id, canonicalUrl, handle) ==
    [id |-> id, canonicalUrl |-> canonicalUrl, externalId |-> Undefined, handle |-> handle,
     displayName |-> Undefined, createdAt |-> 1, updatedAt |-> 1]

\* the canonical URLs and handles of the rows: the target channel; the target channel
\* under another host name; the same with a handle stored without its @; two other
\* channels
StoredUrlHandles ==
    {<<"u1/", "@h1">>, <<"w1/", "@h1">>, <<"x1/", "h1">>, <<"u2/", "@h2">>, <<"u3/", "@h3">>}

\* the channel tables: for each id, no row (the empty sequence) or a URL and a handle
StoredChannels ==
    {{StoredChannel(id, f[id][1], f[id][2]) : id \in {i \in 1..MaxStoredChannels : f[i] # <<>>}} :
        f \in [1..MaxStoredChannels -> {<<>>} \cup StoredUrlHandles]}

VideoIdPool == <<"a", "b", "c", "d">>
StoredVideoIds == {VideoIdPool[i] : i \in 1..MaxStoredVideos}
StoredPayloads == {"ra", "rb", "rb2"}

StoredVideo(id, channelId, atom) ==
    [id |-> id, channelId |-> channelId, title |-> id, scrapedAt |-> 1, rawData |-> atom]

\* the video tables: for each id, no row or a channel id and a payload
StoredVideos ==
    {{StoredVideo(id, f[id][1], f[id][2]) : id \in {i \in StoredVideoIds : f[i] # <<>>}} :
        f \in [StoredVideoIds ->
                 {<<>>} \cup ((1..MaxStoredChannels) \X StoredPayloads)]}

\* the constraints of the schema: channels.id and channels.canonical_url are unique,
\* videos.id is the primary key, videos.channel_id references a channel row
SchemaHolds(chs, vs) ==
    /\ \A c, d \in chs : (c.id = d.id \/ c.canonicalUrl = d.canonicalUrl) => c = d
    /\ \A v, w \in vs : v.id = w.id => v = w
    /\ \A v \in vs : \E c \in chs : c.id = v.channelId

\* extractArchiveExtractorKeys: the keys in the order the Set keeps them
extractArchiveExtractorKeys(rawVideo) ==
    LET lower(value) == IF toNonEmptyString(value) = Undefined THEN Undefined
                        ELSE toLowerCase(toNonEmptyString(value))
        a == lower(rawVideo.extractor)
        b == lower(rawVideo.extractor_key)
        c == lower(rawVideo.ie_key)
    IN  (IF a # Undefined THEN <<a>> ELSE <<>>)
        \o (IF b # Undefined /\ b # a THEN <<b>> ELSE <<>>)
        \o (IF c # Undefined /\ c # a /\ c # b THEN <<c>> ELSE <<>>)

\* the orders in which a query without ORDER BY can return the rows
RowOrders(rows) ==
    {order \in [1..Cardinality(rows) -> rows] :
        \A i, j \in 1..Cardinality(rows) : order[i] = order[j] => i = j}

\* archiveEntries: one entry per row, in the order of the rows
archiveEntriesOf(order) ==
    [i \in 1..Len(order) |->
        [id |-> order[i].id,
         extractorKeys |-> extractArchiveExtractorKeys(JsonParse(order[i].rawData))]]

InitLoad ==
    /\ InitProcess
    /\ InitPlanIdle
    /\ retry = NoRetry
    /\ emitted = NoEmitted
    /\ channels \in StoredChannels
    /\ videos \in StoredVideos
    /\ SchemaHolds(channels, videos)

\* main, lines 366 to 386: the snapshot of the loader and the archive file made of it
Load ==
    /\ loaded.pc = "idle"
    /\ \E snapshot \in loadExistingChannelState(channels, videos, CHANNEL_URL) :
          \E order \in RowOrders({v \in videos : /\ v.channelId = snapshot.channel
                                                  /\ v.id \in snapshot.knownVideoIds}) :
             LET archiveEntries == IF snapshot.channel = 0 THEN <<>>
                                   ELSE archiveEntriesOf(order)
             IN  loaded' = [pc |-> "loaded",
                            channel |-> snapshot.channel,
                            channelMatchStrategy |-> snapshot.channelMatchStrategy,
                            knownVideoIds |-> snapshot.knownVideoIds,
                            archiveEntries |-> archiveEntries,
                            archive |-> createDownloadArchiveFile(archiveEntries)]
    /\ UNCHANGED <<emitted, classify, processEnv, bootstrap, latestSortKey, scrapeOptions, mainRun, urlRun, retry,
                   channels, videos, run, mainPc, unhandledRejections, promise, parsedCount,
                   stdoutBuffer, tasks, ingestionError, closePc, stats, knownIds,
                   ctxChannel, child, faults, storedAtStart, failOrder, atAbort>>

NextLoad == Load

SpecLoad == InitLoad /\ [][NextLoad]_vars

----------------------------------------------------------------------------
(* main followed alone, from locateYtDlp to the end of its finally block    *)
(* and the catch of its caller.  Each awaited step returns or throws; what  *)
(* scrapeChannel does is the run of Spec, of which main sees the outcome:   *)
(* the promise resolved, or rejected, or the process ended on an unhandled  *)
(* rejection before main came back (mainPc = "crashed" there).              *)

MaxKnown == 3    \* known ids the loader returns to main

\* main has called locateYtDlp
MainStarted ==
    [pc |-> "locate", storeQueried |-> FALSE, known |-> 0, handle |-> FALSE,
     tempDir |-> FALSE, error |-> "none", removalAttempted |-> FALSE,
     teardownAttempted |-> FALSE, warnings |-> <<>>, exitCode |-> 0]

\* a step outside the try block throws: main rejects, no finally block runs
MainThrows(m, step) == [m EXCEPT !.pc = "rejected", !.error = step]

\* node runs the script
MainStart ==
    /\ mainRun.pc = "idle"
    /\ mainRun' = MainStarted
    /\ UNCHANGED <<emitted, classify, processEnv, bootstrap, latestSortKey, scrapeOptions, loaded, urlRun, retry,
                   channels, videos, run, mainPc, unhandledRejections, promise,
                   parsedCount, stdoutBuffer, tasks, ingestionError, closePc, stats,
                   knownIds, ctxChannel, child, faults, storedAtStart, failOrder, atAbort>>

\* await locateYtDlp(scriptDir), then the call of loadExistingChannelState: its first
\* query is issued
MainLocated(ok) ==
    /\ mainRun.pc = "locate"
    /\ mainRun' = IF ok THEN [mainRun EXCEPT !.pc = "load", !.storeQueried = TRUE]
                  ELSE MainThrows(mainRun, "locateYtDlp")
    /\ UNCHANGED <<emitted, classify, processEnv, bootstrap, latestSortKey, scrapeOptions, loaded, urlRun, retry,
                   channels, videos, run, mainPc, unhandledRejections, promise,
                   parsedCount, stdoutBuffer, tasks, ingestionError, closePc, stats,
                   knownIds, ctxChannel, child, faults, storedAtStart, failOrder, atAbort>>

\* await loadExistingChannelState(db, CHANNEL_URL), then createDownloadArchiveFile up
\* to its mkdtemp (no entry: it returns undefined and main goes on to
\* getLatestDatabaseSortKey)
MainLoaded(ok, known) ==
    /\ mainRun.pc = "load"
    /\ mainRun' = IF ~ok THEN MainThrows(mainRun, "loadExistingChannelState")
                  ELSE [mainRun EXCEPT !.known = known,
                                       !.pc = IF known = 0 THEN "sortKey" ELSE "mkdtemp"]
    /\ UNCHANGED <<emitted, classify, processEnv, bootstrap, latestSortKey, scrapeOptions, loaded, urlRun, retry,
                   channels, videos, run, mainPc, unhandledRejections, promise,
                   parsedCount, stdoutBuffer, tasks, ingestionError, closePc, stats,
                   knownIds, ctxChannel, child, faults, storedAtStart, failOrder, atAbort>>

\* createDownloadArchiveFile: await fsp.mkdtemp(...), then the call of writeFile
MainTempDirMade(ok) ==
    /\ mainRun.pc = "mkdtemp"
    /\ mainRun' = IF ok THEN [mainRun EXCEPT !.pc = "writeFile", !.tempDir = TRUE]
                  ELSE MainThrows(mainRun, "createDownloadArchiveFile")
    /\ UNCHANGED <<emitted, classify, processEnv, bootstrap, latestSortKey, scrapeOptions, loaded, urlRun, retry,
                   channels, videos, run, mainPc, unhandledRejections, promise,
                   parsedCount, stdoutBuffer, tasks, ingestionError, closePc, stats,
                   knownIds, ctxChannel, child, faults, storedAtStart, failOrder, atAbort>>

\* createDownloadArchiveFile: await fsp.writeFile(...), the handle is returned, and main
\* calls getLatestDatabaseSortKey
MainArchiveWritten(ok) ==
    /\ mainRun.pc = "writeFile"
    /\ mainRun' = IF ok THEN [mainRun EXCEPT !.pc = "sortKey", !.handle = TRUE]
                  ELSE MainThrows(mainRun, "createDownloadArchiveFile")
    /\ UNCHANGED <<emitted, classify, processEnv, bootstrap, latestSortKey, scrapeOptions, loaded, urlRun, retry,
                   channels, videos, run, mainPc, unhandledRejections, promise,
                   parsedCount, stdoutBuffer, tasks, ingestionError, closePc, stats,
                   knownIds, ctxChannel, child, faults, storedAtStart, failOrder, atAbort>>

\* await getLatestDatabaseSortKey(...), then the planning and, in the try block, the
\* call of scrapeChannel
MainSortKeyRead(ok) ==
    /\ mainRun.pc = "sortKey"
    /\ mainRun' = IF ok THEN [mainRun EXCEPT !.pc = "scrape"]
                  ELSE MainThrows(mainRun, "getLatestDatabaseSortKey")
    /\ UNCHANGED <<emitted, classify, processEnv, bootstrap, latestSortKey, scrapeOptions, loaded, urlRun, retry,
                   channels, videos, run, mainPc, unhandledRejections, promise,
                   parsedCount, stdoutBuffer, tasks, ingestionError, closePc, stats,
                   knownIds, ctxChannel, child, faults, storedAtStart, failOrder, atAbort>>

\* the finally block up to its first await: the removal of the archive if there is a
\* handle, else the teardown of the store connections
EnterFinally(m) ==
    IF m.handle THEN [m EXCEPT !.pc = "removal", !.removalAttempted = TRUE]
    ELSE [m EXCEPT !.pc = "teardown", !.teardownAttempted = TRUE]

\* await scrapeChannel(...): it resolved, or it rejected, or the process ended before
ScrapeOutcomes == {"resolved", "rejected", "crashed"}

MainScraped(outcome) ==
    /\ mainRun.pc = "scrape"
    /\ mainRun' =
          CASE outcome = "resolved" -> EnterFinally(mainRun)
            [] outcome = "rejected" -> EnterFinally([mainRun EXCEPT !.error = "scrapeChannel"])
            [] outcome = "crashed" -> [mainRun EXCEPT !.pc = "crashed",
                                                      !.error = "uncaughtException",
                                                      !.exitCode = 1]
    /\ UNCHANGED <<emitted, classify, processEnv, bootstrap, latestSortKey, scrapeOptions, loaded, urlRun, retry,
                   channels, videos, run, mainPc, unhandledRejections, promise,
                   parsedCount, stdoutBuffer, tasks, ingestionError, closePc, stats,
                   knownIds, ctxChannel, child, faults, storedAtStart, failOrder, atAbort>>

\* await downloadArchiveHandle.cleanup().catch(warn), then the call of
\* closeDatabaseConnections
MainArchiveRemoved(ok) ==
    /\ mainRun.pc = "removal"
    /\ mainRun' = [mainRun EXCEPT
                      !.pc = "teardown",
                      !.teardownAttempted = TRUE,
                      !.tempDir = IF ok THEN FALSE ELSE @,
                      !.warnings = IF ok THEN @ ELSE Append(@, "fs")]
    /\ UNCHANGED <<emitted, classify, processEnv, bootstrap, latestSortKey, scrapeOptions, loaded, urlRun, retry,
                   channels, videos, run, mainPc, unhandledRejections, promise,
                   parsedCount, stdoutBuffer, tasks, ingestionError, closePc, stats,
                   knownIds, ctxChannel, child, faults, storedAtStart, failOrder, atAbort>>

\* await closeDatabaseConnections().catch(warn): the finally block ends, and main
\* returns or throws what the try block threw
MainConnectionsClosed(ok) ==
    /\ mainRun.pc = "teardown"
    /\ mainRun' = [mainRun EXCEPT
                      !.pc = IF mainRun.error = "none" THEN "fulfilled" ELSE "rejected",
                      !.warnings = IF ok THEN @ ELSE Append(@, "db")]
    /\ UNCHANGED <<emitted, classify, processEnv, bootstrap, latestSortKey, scrapeOptions, loaded, urlRun, retry,
                   channels, videos, run, mainPc, unhandledRejections, promise,
                   parsedCount, stdoutBuffer, tasks, ingestionError, closePc, stats,
                   knownIds, ctxChannel, child, faults, storedAtStart, failOrder, atAbort>>

\* main().catch((error) => { console.error(error); process.exitCode = 1; }), and the
\* process ends
MainSettled ==
    /\ mainRun.pc \in {"fulfilled", "rejected"}
    /\ mainRun' = [mainRun EXCEPT !.pc = "ended",
                                  !.exitCode = IF mainRun.pc = "rejected" THEN 1 ELSE @]
    /\ UNCHANGED <<emitted, classify, processEnv, bootstrap, latestSortKey, scrapeOptions, loaded, urlRun, retry,
                   channels, videos, run, mainPc, unhandledRejections, promise,
                   parsedCount, stdoutBuffer, tasks, ingestionError, closePc, stats,
                   knownIds, ctxChannel, child, faults, storedAtStart, failOrder, atAbort>>

NextMain ==
    \/ MainStart
    \/ \E ok \in BOOLEAN : MainLocated(ok)
    \/ \E ok \in BOOLEAN, known \in 0..MaxKnown : MainLoaded(ok, known)
    \/ \E ok \in BOOLEAN : MainTempDirMade(ok)
    \/ \E ok \in BOOLEAN : MainArchiveWritten(ok)
    \/ \E ok \in BOOLEAN : MainSortKeyRead(ok)
    \/ \E outcome \in ScrapeOutcomes : MainScraped(outcome)
    \/ \E ok \in BOOLEAN : MainArchiveRemoved(ok)
    \/ \E ok \in BOOLEAN : MainConnectionsClosed(ok)
    \/ MainSettled

SpecMain == Init /\ [][NextMain]_vars

----------------------------------------------------------------------------
(* normalizeChannelUrl over the text of a URL.  A string is the white space *)
(* around it (padded), its origin (scheme and host; empty when the text is  *)
(* no absolute URL), the segments of its path (the text between the         *)
(* slashes: "/@c/videos/" is "@c", "videos", ""; "/@c//videos" is "@c",     *)
(* "", "videos"; no segment at all when nothing follows the host) and its   *)
(* query.  The store model above uses its restriction to the atoms u1/,     *)
(* u1/videos, u2/ and u2/videos.                                            *)

MaxSegments == 3    \* path segments of an input

SectionNames == {"videos", "shorts", "streams", "featured", "community"}

\* the i flag of the pattern
IsSection(segment) ==
    \/ segment \in SectionNames
    \/ segment = "Shorts"
    \/ segment = "VIDEOS"

\* new URL(trimmed).pathname: "/" when nothing follows the host
parsedPathname(path) == IF path = <<>> THEN <<"">> ELSE path

\* pathname.replace(/(\/(?:videos|shorts|streams|featured|community))\/?$/i, "/")
replaceTrailingSection(path) ==
    LET n == Len(path)
    IN  IF n >= 1 /\ IsSection(path[n]) THEN Append(SubSeq(path, 1, n - 1), "")
        ELSE IF n >= 2 /\ path[n] = "" /\ IsSection(path[n - 1])
        THEN Append(SubSeq(path, 1, n - 2), "")
        ELSE path

NonEmptySegment(segment) == segment # ""

\* pathname.replace(/\/{2,}/g, "/")
replaceSlashRuns(path) ==
    IF path[Len(path)] = "" THEN Append(SelectSeq(path, NonEmptySegment), "")
    ELSE SelectSeq(path, NonEmptySegment)

\* if (!pathname.endsWith("/")) pathname = `${pathname}/`
ensureTrailingSlash(path) == IF path[Len(path)] = "" THEN path ELSE Append(path, "")

\* rawUrl.trim()
TrimUrl(rawUrl) == [rawUrl EXCEPT !.padded = FALSE]

\* the text is empty
IsEmptyText(text) == ~text.padded /\ text.origin = "" /\ text.path = <<>> /\ text.search = ""

\* normalizeChannelUrl: new URL throws for a text without origin, the catch returns trimmed
normalizeChannelUrlText(rawUrl) ==
    LET trimmed == TrimUrl(rawUrl)
    IN  IF IsEmptyText(trimmed) THEN rawUrl
        ELSE IF trimmed.origin = "" THEN trimmed
        ELSE [padded |-> FALSE, origin |-> trimmed.origin,
              path |-> ensureTrailingSlash(replaceSlashRuns(replaceTrailingSection(
                           parsedPathname(trimmed.path)))),
              search |-> ""]

UrlSegments == {"@c", "videos", "Shorts", ""}

UrlInputs ==
    {[padded |-> p, origin |-> o, path |-> path, search |-> q] :
        p \in BOOLEAN, o \in {"", "https://youtube.com"},
        path \in UNION {[1..n -> UrlSegments] : n \in 0..MaxSegments},
        q \in {"", "?view=0"}}

\* normalizeChannelUrl(rawUrl), and normalizeChannelUrl of what it returned
NormalizeUrl(rawUrl) ==
    /\ urlRun.pc = "idle"
    /\ urlRun' = [pc |-> "done", input |-> rawUrl,
                  once |-> normalizeChannelUrlText(rawUrl),
                  twice |-> normalizeChannelUrlText(normalizeChannelUrlText(rawUrl))]
    /\ UNCHANGED <<emitted, classify, processEnv, bootstrap, latestSortKey, scrapeOptions, loaded, mainRun,
                   retry, channels, videos, run, mainPc, unhandledRejections, promise,
                   parsedCount, stdoutBuffer, tasks, ingestionError, closePc, stats,
                   knownIds, ctxChannel, child, faults, storedAtStart, failOrder, atAbort>>

NextUrl == \E rawUrl \in UrlInputs : NormalizeUrl(rawUrl)

SpecUrl == Init /\ [][NextUrl]_vars

----------------------------------------------------------------------------
(* isTransientDatabaseError, one call followed frame by frame.  The error   *)
(* values are objects of a heap, so that a cause can be the error itself or *)
(* an error met before: object e of the heap has a code, a message and a    *)
(* cause (another object, or 0 for none).                                   *)

MaxErrors == 2   \* error objects in the heap
MaxStack == 4    \* frames the call stack takes before the engine raises RangeError
                 \* (scaled: more than any recursion over MaxErrors distinct objects)

ErrorObjects ==
    [code : {Absent, "ECONNRESET", "23505"},
     message : {"other", "connection reset"},
     cause : 0..MaxErrors]

ErrorHeaps == [1..MaxErrors -> ErrorObjects]

\* maybeCause && maybeCause !== error
followsCause(heap, e) == heap[e].cause # 0 /\ heap[e].cause # e

\* a call: the frame is pushed, or the stack is full and the engine raises RangeError
\* (Maximum call stack size exceeded)
PushFrame(c, fn, e) ==
    IF Len(c.stack) >= MaxStack
    THEN [c EXCEPT !.pc = "overflow"]
    ELSE [c EXCEPT !.stack = Append(@, [fn |-> fn, err |-> e, at |-> "start"])]

\* a return: the frame is popped and the value handed to the caller
PopFrame(c, value) ==
    [c EXCEPT !.stack = SubSeq(@, 1, Len(@) - 1), !.ret = <<value>>]

\* the frame on top has reached the call it waits on
WaitAt(c, at) == [c EXCEPT !.stack[Len(c.stack)].at = at, !.ret = <<>>]

\* the last test of isTransientDatabaseError: the message of the error
messageIsTransient(heap, e) ==
    IF heap[e].message \in TransientMessages THEN "true" ELSE "false"

\* withDatabaseRetry's catch block calls isTransientDatabaseError(error); error is
\* object 1 of the heap
ClassifyStart(heap) ==
    /\ classify.pc = "idle"
    /\ classify' = [pc |-> "running", heap |-> heap, ret |-> <<>>,
                    stack |-> <<[fn |-> "isTransientDatabaseError", err |-> 1,
                                 at |-> "start"]>>]
    /\ UNCHANGED <<emitted, processEnv, bootstrap, latestSortKey, scrapeOptions, loaded,
                   mainRun, urlRun, retry, channels, videos, run, mainPc,
                   unhandledRejections, promise, parsedCount, stdoutBuffer, tasks,
                   ingestionError, closePc, stats, knownIds, ctxChannel, child, faults,
                   storedAtStart, failOrder, atAbort>>

\* the function on top of the stack runs from its first line to its first call or to
\* its return
ClassifyEnter ==
    /\ classify.pc = "running"
    /\ classify.ret = <<>>
    /\ LET top == classify.stack[Len(classify.stack)]
           e == top.err
           heap == classify.heap
       IN  /\ top.at = "start"
           /\ classify' =
                 IF top.fn = "isTransientDatabaseError"
                 THEN PushFrame(WaitAt(classify, "code"), "extractErrorCode", e)
                 ELSE IF heap[e].code # Absent
                 THEN PopFrame(classify, heap[e].code)
                 ELSE IF followsCause(heap, e)
                 THEN PushFrame(WaitAt(classify, "cause"), "extractErrorCode", heap[e].cause)
                 ELSE PopFrame(classify, Undefined)
    /\ UNCHANGED <<emitted, processEnv, bootstrap, latestSortKey, scrapeOptions, loaded,
                   mainRun, urlRun, retry, channels, videos, run, mainPc,
                   unhandledRejections, promise, parsedCount, stdoutBuffer, tasks,
                   ingestionError, closePc, stats, knownIds, ctxChannel, child, faults,
                   storedAtStart, failOrder, atAbort>>

\* a call returned: the caller goes on from it to its next call or to its return
ClassifyResume ==
    /\ classify.pc = "running"
    /\ classify.ret # <<>>
    /\ classify.stack # <<>>
    /\ LET top == classify.stack[Len(classify.stack)]
           e == top.err
           heap == classify.heap
           value == classify.ret[1]
       IN  classify' =
              IF top.fn = "extractErrorCode"
              THEN PopFrame(classify, value)
              ELSE IF top.at = "code"
              THEN IF value \in TRANSIENT_DB_ERROR_CODES
                   THEN PopFrame(classify, "true")
                   ELSE IF followsCause(heap, e)
                   THEN PushFrame(WaitAt(classify, "cause"), "isTransientDatabaseError",
                                  heap[e].cause)
                   ELSE PopFrame(classify, messageIsTransient(heap, e))
              ELSE IF value = "true"
                   THEN PopFrame(classify, "true")
                   ELSE PopFrame(classify, messageIsTransient(heap, e))
    /\ UNCHANGED <<emitted, processEnv, bootstrap, latestSortKey, scrapeOptions, loaded,
                   mainRun, urlRun, retry, channels, videos, run, mainPc,
                   unhandledRejections, promise, parsedCount, stdoutBuffer, tasks,
                   ingestionError, closePc, stats, knownIds, ctxChannel, child, faults,
                   storedAtStart, failOrder, atAbort>>

\* the outermost call returned its answer to withDatabaseRetry
ClassifyDone ==
    /\ classify.pc = "running"
    /\ classify.ret # <<>>
    /\ classify.stack = <<>>
    /\ classify' = [classify EXCEPT !.pc = "returned"]
    /\ UNCHANGED <<emitted, processEnv, bootstrap, latestSortKey, scrapeOptions, loaded,
                   mainRun, urlRun, retry, channels, videos, run, mainPc,
                   unhandledRejections, promise, parsedCount, stdoutBuffer, tasks,
                   ingestionError, closePc, stats, knownIds, ctxChannel, child, faults,
                   storedAtStart, failOrder, atAbort>>

NextClassify ==
    \/ \E heap \in ErrorHeaps : ClassifyStart(heap)
    \/ ClassifyEnter
    \/ ClassifyResume
    \/ ClassifyDone

SpecClassify == Init /\ [][NextClassify]_vars

----------------------------------------------------------------------------
(* Properties *)

IdOf(atom) == toNonEmptyString(JsonParse(atom).id)
FeedIds == [i \in 1..Len(tasks) |-> IdOf(tasks[i].atom)]
NoId(i) == IdOf(tasks[i].atom) = Undefined
Count(pcs) == Cardinality({i \in 1..Len(tasks) : tasks[i].pc \in pcs})
AbcFeed == promise.state = "resolved" /\ storedAtStart = {} /\ parsedCount = 3
           /\ FeedIds = <<"a", "b", "b">>

\* C1: a run that starts from an empty store and is fed the records a, b, b ends with
\* parsed = 3, inserted = 2, skippedExisting = 1, invalid = 0, however the three
\* persistence tasks interleave.
C1_FinalStats ==
    AbcFeed => stats = [parsed |-> 3, inserted |-> 2, skippedExisting |-> 1, invalid |-> 0]

\* the run a, b, b has ended, and one b task lost the insert to the other: both had
\* passed the known-id check before either insert returned
C1_Witness ==
    /\ AbcFeed
    /\ stats = [parsed |-> 3, inserted |-> 2, skippedExisting |-> 1, invalid |-> 0]
    /\ \E i \in 2..3 : tasks[i].pc = "conflict"

\* C2: a record whose id an earlier run stored is never inserted again: the store keeps
\* exactly one row for the id, the record ends counted as skippedExisting and not as
\* inserted, and the two counters count exactly the records that ended so.
C2_Idempotent ==
    /\ \A i \in 1..Len(tasks) :
          IdOf(tasks[i].atom) \in storedAtStart =>
             /\ Cardinality({v \in videos : v.id = IdOf(tasks[i].atom)}) = 1
             /\ tasks[i].pc \in {"channel", "insert", "skipped", "conflict"}
    /\ stats.skippedExisting = Count({"skipped", "conflict"})
    /\ stats.inserted = Count({"inserted"})

\* a later run has ended whose feed was one record, of an id the earlier run stored
C2_Witness ==
    /\ run = 2
    /\ promise.state = "resolved"
    /\ Len(tasks) = 1
    /\ IdOf(tasks[1].atom) \in storedAtStart
    /\ stats.skippedExisting = 1
    /\ stats.inserted = 0
    /\ Cardinality({v \in videos : v.id = IdOf(tasks[1].atom)}) = 1

\* C3: scrapeChannel resolves (with the parsed count) only when every task it
\* dispatched has settled and none of them failed.
C3_SuccessMeansAllSettled ==
    promise.state = "resolved" =>
       /\ \A i \in 1..Len(tasks) : Settled(tasks[i]) /\ tasks[i].pc # "failed"
       /\ failOrder = <<>>
       /\ ingestionError = 0
       /\ promise.n = parsedCount

\* the run succeeded with two tasks, one of them after a store error that was retried
C3_Witness ==
    /\ promise.state = "resolved"
    /\ Len(tasks) = 2
    /\ faults > 0
    /\ \E i \in 1..2 : tasks[i].pc = "inserted" /\ tasks[i].attempt = 2

\* C4 as claimed: when several tasks failed, the run's terminal error is the error of
\* the task that failed first.
C4_Claimed ==
    (Len(failOrder) >= 2 /\ promise.state # "pending") =>
       promise = [state |-> "rejected", kind |-> "taskError", n |-> failOrder[1]]

\* C4 as amended: the error kept in ingestionError is the error of the task that failed
\* first and no later failure replaces it; it is the error scrapeChannel rejects with
\* unless a malformed line rejected the run before, and the run never resolves.
C4_FirstFailureWins ==
    failOrder # <<>> =>
       /\ ingestionError = failOrder[1]
       /\ promise.state # "resolved"
       /\ (promise.state = "rejected" /\ ~atAbort.aborted) =>
             promise = [state |-> "rejected", kind |-> "taskError", n |-> failOrder[1]]

\* two tasks failed, the one dispatched later first, and the run was rejected with its error
C4_Witness ==
    /\ failOrder = <<2, 1>>
    /\ promise = [state |-> "rejected", kind |-> "taskError", n |-> 2]

\* C5: once a task has failed, the subprocess has been asked to terminate if it is
\* still running, and the failure of the run is reported (scrapeChannel rejects, or the
\* process ends on the error) only when every task in flight has settled.
C5_Claimed ==
    failOrder # <<>> =>
       /\ child.state = "running" => child.killed
       /\ (promise.state = "rejected" \/ mainPc = "crashed") =>
             \A i \in 1..Len(tasks) : Settled(tasks[i])

\* C6: after a malformed line no further record is parsed or dispatched.
C6_Claimed ==
    atAbort.aborted =>
       /\ parsedCount = atAbort.parsed
       /\ Len(tasks) = atAbort.dispatched

\* C7: when a malformed line aborts the run, main's cleanup starts only when the tasks
\* dispatched for the earlier lines have settled.
C7_Claimed ==
    (atAbort.aborted /\ mainPc \in {"cleanup", "exited"}) =>
       \A i \in 1..atAbort.dispatched : Settled(tasks[i])

\* C8: with no task failure and no malformed line, the run is rejected exactly when the
\* exit status is not zero and no record was parsed; otherwise it resolves with the
\* number of records parsed.
C8_ExitStatus ==
    (promise.state # "pending" /\ failOrder = <<>> /\ ~atAbort.aborted) =>
       /\ promise.state = "rejected" <=> (child.nonZero /\ parsedCount = 0)
       /\ promise.state = "rejected" => promise.kind = "exitError"
       /\ promise.state = "resolved" => promise.n = parsedCount

\* the subprocess ended with a status that is not zero after two records were parsed,
\* and the run resolved with 2
C8_Witness ==
    /\ promise = [state |-> "resolved", kind |-> "count", n |-> 2]
    /\ child.nonZero
    /\ parsedCount = 2
    /\ failOrder = <<>>
    /\ ~atAbort.aborted

\* C9: a record without id is counted invalid, exactly once, stores no video row and
\* never fails.
C9_Claimed ==
    /\ \A i \in 1..Len(tasks) :
          NoId(i) => /\ tasks[i].pc # "failed"
                     /\ Settled(tasks[i]) => tasks[i].pc = "invalid"
                     /\ \A v \in videos : v.rawData # tasks[i].atom
    /\ stats.invalid = Count({"invalid"})

\* C10: a record without id issues no store operation and leaves the channel table and
\* the video table as they were.
C10_Claimed ==
    /\ \A i \in 1..Len(tasks) : NoId(i) => tasks[i].pc \notin {"channel", "insert"}
    /\ (\A i \in 1..Len(tasks) : NoId(i)) => channels = {} /\ videos = {}

\* the row stored for the id of task i, as a set (empty when there is none)
RowOf(i) == {v \in videos : v.id = IdOf(tasks[i].atom)}

C12_Claimed ==
    \A i \in 1..Len(tasks) :
       (IdOf(tasks[i].atom) \in storedAtStart /\ Settled(tasks[i])) =>
          \E v \in RowOf(i) :
             /\ v.scrapedAt = run
             /\ v.title = mapRawVideoToInsert(tasks[i].atom, v.channelId, run)[1].title

\* C13: a run that ingested at least one item for a channel that was in the store before
\* the run has written that channel row: its updated timestamp is the run's.
C13_Claimed ==
    (promise.state = "resolved" /\ Len(tasks) >= 1) =>
       \A c \in channels : (c.id = ctxChannel /\ c.createdAt < run) => c.updatedAt = run

\* C14: a channel upsert never changes the primary key, the canonical URL or the creation
\* time of a row, whatever upserts run concurrently, and the table never holds two rows
\* with one canonical URL (or one primary key).
C14_ConflictFrame ==
    /\ [](\A c, d \in channels : (c.canonicalUrl = d.canonicalUrl \/ c.id = d.id) => c = d)
    /\ [][\A c \in channels : \E d \in channels' :
              d.id = c.id /\ d.canonicalUrl = c.canonicalUrl /\ d.createdAt = c.createdAt]_vars

\* a later run, which found no channel, upserted on the canonical URL of a row an earlier
\* run created: the row kept its key and its creation time and got the new timestamp
C14_Witness ==
    \E c \in channels :
       /\ c.createdAt = 1
       /\ c.updatedAt = 2
       /\ \E i \in 1..Len(tasks) : tasks[i].channelId = c.id /\ tasks[i].pc = "inserted"

\* the errors of the attempts made so far were all transient
AllTransient ==
    \A k \in 1..retry.invoked :
       ~retry.outcomes[k].ok /\ isTransientDatabaseError(retry.outcomes[k].error)

\* C15: withDatabaseRetry invokes the operation at most max(1, DB_MAX_RETRIES) times;
\* when every attempt raised a transient error it throws the error of the last attempt,
\* after exactly that many invocations; when an attempt succeeds it returns the result
\* of that attempt; and once it has returned or thrown it invokes nothing more.
C15_RetryBound ==
    /\ [](retry.pc # "idle" =>
            /\ retry.invoked <= MathMax(1, retry.configured)
            /\ (retry.pc = "thrown" /\ AllTransient) =>
                  /\ retry.invoked = MathMax(1, retry.configured)
                  /\ retry.result = retry.invoked
            /\ retry.pc = "returned" =>
                  /\ retry.result = retry.invoked
                  /\ retry.outcomes[retry.result].ok)
    /\ [][retry.pc \in {"returned", "thrown"} => retry' = retry]_vars

\* three attempts, three transient errors, two sleeps: the third error is thrown
C15_Witness ==
    /\ retry.pc = "thrown"
    /\ retry.configured = 3
    /\ retry.invoked = 3
    /\ retry.slept = 2
    /\ retry.result = 3
    /\ AllTransient

\* C16: an error that is not transient ends withDatabaseRetry at once, on whichever
\* attempt it is raised: that error is the one thrown, no sleep follows it and the
\* operation is not invoked again.
C16_FatalAbortsAtOnce ==
    retry.pc # "idle" =>
       \A k \in 1..retry.invoked :
          (~retry.outcomes[k].ok /\ ~isTransientDatabaseError(retry.outcomes[k].error)) =>
             /\ retry.pc = "thrown"
             /\ retry.result = k
             /\ retry.invoked = k
             /\ retry.slept = k - 1

\* the second of three attempts raised a unique violation, after one transient error
\* and one sleep
C16_Witness ==
    /\ retry.pc = "thrown"
    /\ retry.configured = 3
    /\ retry.invoked = 2
    /\ retry.slept = 1
    /\ retry.result = 2
    /\ retry.outcomes[2] = [ok |-> FALSE, error |-> ErrorWrapsUnique]

Planned == scrapeOptions.pc = "planned"
KnownCount == Cardinality(bootstrap.knownVideoIds)
StoredIndex == bootstrap.coverage.maxPlaylistIndex
StoredCount == bootstrap.coverage.maxPlaylistCount

\* C17: where a maximum playlist index and a maximum playlist count are both stored,
\* backfill (the reverse traversal) is activated exactly when the known-item count is
\* greater than zero and the index is strictly less than the count; it is not activated
\* when the two are equal.
C17_Claimed ==
    (Planned /\ StoredIndex # <<>> /\ StoredCount # <<>>) =>
       (scrapeOptions.reversePlaylist <=>
          (KnownCount > 0 /\ StoredIndex[1] < StoredCount[1]))

\* C18 as claimed: the automatic cutoff is eligible exactly when no item is known or the
\* stored maximum playlist index is at least the stored maximum playlist count.
C18_Claimed ==
    Planned =>
       (scrapeOptions.canUseAutoDateAfter <=>
          \/ KnownCount = 0
          \/ /\ StoredIndex # <<>>
             /\ StoredCount # <<>>
             /\ StoredIndex[1] >= StoredCount[1])

\* C18 as amended: the automatic cutoff is eligible exactly when no item is known, or a
\* maximum playlist count greater than zero is stored and the stored maximum playlist
\* index is at least that count; with known items and no stored coverage it is not.
C18_Eligibility ==
    Planned =>
       /\ (scrapeOptions.canUseAutoDateAfter <=>
             \/ KnownCount = 0
             \/ /\ StoredIndex # <<>>
                /\ StoredCount # <<>>
                /\ StoredCount[1] > 0
                /\ StoredIndex[1] >= StoredCount[1])
       /\ (KnownCount > 0 /\ ~bootstrap.coverage.defined) => ~scrapeOptions.canUseAutoDateAfter

\* known items whose stored index has caught up with the stored count: eligible
C18_Witness ==
    /\ Planned
    /\ KnownCount = 2
    /\ StoredIndex = <<3>>
    /\ StoredCount = <<3>>
    /\ scrapeOptions.canUseAutoDateAfter

\* the arguments of the invocation that are the flag --dateafter, and those that are a
\* computed date
DateafterFlags(args) == {i \in 1..Len(args) : args[i].text = "--dateafter"}
ComputedDates(args) == {i \in 1..Len(args) : args[i].digits # <<>>}

\* C19: when the extra arguments carry a date cutoff of the operator (an argument that
\* starts with --dateafter), or the disable flag is set to a true value, no computed
\* cutoff is passed: options.dateAfter is undefined and the invocation has no --dateafter
\* but those of the extra arguments.
C19_NoAutoCutoff ==
    (/\ Planned
     /\ \/ \E i \in 1..Len(processEnv.CAREY_YTDLP_EXTRA_ARGS) :
              processEnv.CAREY_YTDLP_EXTRA_ARGS[i].text \in DateafterArgs
        \/ processEnv.CAREY_DISABLE_AUTO_DATEAFTER \in {"1", "TRUE"}) =>
       /\ scrapeOptions.dateAfter = <<>>
       /\ ComputedDates(scrapeOptions.args) = {}
       /\ Cardinality(DateafterFlags(scrapeOptions.args))
             = Cardinality(DateafterFlags(processEnv.CAREY_YTDLP_EXTRA_ARGS))

\* the stored state allows a computed cutoff (coverage caught up, a newest upload date),
\* the operator passed --dateafter=20200101, and the invocation carries no computed one
C19_Witness ==
    /\ Planned
    /\ processEnv.CAREY_YTDLP_EXTRA_ARGS = <<Arg("--dateafter=20200101")>>
    /\ processEnv.CAREY_DISABLE_AUTO_DATEAFTER = Absent
    /\ scrapeOptions.canUseAutoDateAfter
    /\ KnownCount > 0
    /\ latestSortKey.uploadDate = <<2, 0, 2, 4, 0, 1, 1, 5>>
    /\ scrapeOptions.dateAfter = <<>>

\* the later of the date parsed from the newest upload date and the newest uploaded-at
\* instant, in a sequence (empty when there is neither)
LaterBaseline ==
    LET a == uploadDateStringToDate(latestSortKey.uploadDate)
        b == latestSortKey.uploadedAt
    IN  IF a = <<>> THEN b
        ELSE IF b = <<>> THEN a
        ELSE IF b[1].day > a[1].day \/ (b[1].day = a[1].day /\ b[1].ms > a[1].ms) THEN b
        ELSE a

\* C20: the computed cutoff is the calendar day (UTC, YYYYMMDD) one day before the later
\* of the date parsed from the newest stored upload date and the newest stored
\* uploaded-at instant; for a newest upload date of 20240115 alone it is 20240114.
C20_Claimed ==
    (Planned /\ scrapeOptions.dateAfter # <<>>) =>
       /\ LaterBaseline # <<>>
       /\ scrapeOptions.dateAfter[1]
             = formatDateAsYyyymmdd([LaterBaseline[1] EXCEPT !.day = @ - 1])
       /\ (latestSortKey.uploadDate = <<2, 0, 2, 4, 0, 1, 1, 5>>
            /\ latestSortKey.uploadedAt = <<>>) =>
             scrapeOptions.dateAfter[1] = <<2, 0, 2, 4, 0, 1, 1, 4>>

\* the invocation carries the flag
HasFlag(flag) == \E i \in 1..Len(scrapeOptions.args) : scrapeOptions.args[i].text = flag

C31_Claimed ==
    Planned =>
       /\ ~(needsPlaylistBackfill(bootstrap) /\ shouldUseAutoDateAfter(bootstrap))
       /\ ~(scrapeOptions.reversePlaylist /\ scrapeOptions.canUseAutoDateAfter)
       /\ ~(HasFlag("--playlist-reverse") /\ ComputedDates(scrapeOptions.args) # {})

Loaded == loaded.pc = "loaded"
TargetUrl == normalizeChannelUrl(CHANNEL_URL)
PayloadUrl(v) == toNonEmptyString(JsonParse(v.rawData).channel_url)
MatchesTarget(v) == PayloadUrl(v) # Undefined /\ normalizeChannelUrl(PayloadUrl(v)) = TargetUrl

\* the strategies in the order of the claim, each with the channel ids it yields
Strategies ==
    <<[name |-> "canonical", ids |-> {c.id : c \in {x \in channels : x.canonicalUrl = TargetUrl}}],
      [name |-> "handle", ids |-> {c.id : c \in {x \in channels : x.handle = "@h1"}}],
      [name |-> "handle", ids |-> {c.id : c \in {x \in channels : x.handle = "h1"}}],
      [name |-> "raw_data", ids |-> {v.channelId : v \in {x \in videos : MatchesTarget(x)}}],
      [name |-> "fallback", ids |-> {v.channelId : v \in videos}]>>

Hits == {k \in 1..Len(Strategies) : Strategies[k].ids # {}}
FirstHit == CHOOSE k \in Hits : \A j \in Hits : k <= j

\* C22: the loader tries the canonical URL, the handle with and then without its @, the
\* payload-URL scan and the raw fallback, in that order; the first strategy that yields a
\* channel gives the channel and the reported strategy; when every strategy misses, the
\* loader returns a snapshot with no channel, no known id and no archive entry, and it
\* returns for every store (it does not raise).
C22_ResolutionOrder ==
    /\ loadExistingChannelState(channels, videos, CHANNEL_URL) # {}
    /\ Loaded =>
          IF Hits = {}
          THEN /\ loaded.channel = 0
               /\ loaded.channelMatchStrategy = "none"
               /\ loaded.knownVideoIds = {}
               /\ loaded.archiveEntries = <<>>
          ELSE /\ loaded.channel \in Strategies[FirstHit].ids
               /\ loaded.channelMatchStrategy = Strategies[FirstHit].name

\* the channel was found by its handle stored without the @, in a store where the
\* payload of a row of another channel names the target URL
C22_Witness ==
    /\ Loaded
    /\ loaded.channelMatchStrategy = "handle"
    /\ \E c \in channels : c.id = loaded.channel /\ c.handle = "h1"
    /\ \E v \in videos : MatchesTarget(v) /\ v.channelId # loaded.channel

RowsOfChannel(id) == Cardinality({v \in videos : v.channelId = id})

\* C23: in the raw fallback (no stored payload names the target URL), the channel
\* adopted is the one whose id is the most common among the stored video rows.
C23_Claimed ==
    (Loaded /\ loaded.channelMatchStrategy = "fallback") =>
       \A v \in videos : RowsOfChannel(loaded.channel) >= RowsOfChannel(v.channelId)

\* the extractor keys recorded for a stored row, lower-cased
RecordedKeys(v) ==
    {toLowerCase(k) : k \in {JsonParse(v.rawData).extractor, JsonParse(v.rawData).extractor_key,
                             JsonParse(v.rawData).ie_key} \ {Absent, "  "}}

KnownRows == {v \in videos : v.id \in loaded.knownVideoIds}

\* the lines the archive has to hold: for a row with recorded keys, and for a row with none
ExpectedLines ==
    UNION {{<<k, " ", v.id, "\n">> : k \in RecordedKeys(v)} : v \in KnownRows}

DefaultLines ==
    UNION {{<<k, " ", v.id, "\n">> : k \in {"youtubetab", "youtube"}} :
              v \in {x \in KnownRows : RecordedKeys(x) = {}}}

\* C29: the dedup archive has, for every known id, one line per lower-cased extractor key
\* recorded for the id, written as key, one space, id; an id with no recorded key has one
\* line for each default key; no line is repeated; and no archive file is created when
\* no id is known.
C29_ArchiveFormat ==
    Loaded =>
       LET lines == loaded.archive.lines
       IN  /\ loaded.archive.created <=> loaded.knownVideoIds # {}
           /\ {lines[i] : i \in 1..Len(lines)} = ExpectedLines \cup DefaultLines
           /\ \A i, j \in 1..Len(lines) : lines[i] = lines[j] => i = j
           /\ ~loaded.archive.created => lines = <<>>

\* three ids are known: one with two recorded keys that differ in case only (one line),
\* one with three keys (three lines), one with none (the two default lines)
C29_Witness ==
    /\ Loaded
    /\ Cardinality(loaded.knownVideoIds) = 3
    /\ {v.rawData : v \in KnownRows} = {"ra", "rb", "rb2"}
    /\ Len(loaded.archive.lines) = 6

\* baseDelay and maxDelay as the claim has them
BaseDelay == IF retry.base < 50 THEN 50 ELSE retry.base
MaxDelay == IF retry.max < BaseDelay THEN BaseDelay ELSE retry.max

\* C28: the delay slept after failed attempt n (counted from 1) is
\* min(baseDelay * 2^(n-1), maxDelay), with baseDelay at least 50 ms and maxDelay at
\* least baseDelay: successive delays double up to the cap, never decrease and never
\* exceed maxDelay.
C28_Backoff ==
    retry.pc # "idle" =>
       /\ BaseDelay >= 50
       /\ MaxDelay >= BaseDelay
       /\ \A n \in 1..Len(retry.delays) :
             /\ retry.delays[n] = (IF BaseDelay * 2 ^ (n - 1) <= MaxDelay
                                   THEN BaseDelay * 2 ^ (n - 1) ELSE MaxDelay)
             /\ retry.delays[n] <= MaxDelay
             /\ n > 1 => /\ retry.delays[n] >= retry.delays[n - 1]
                         /\ retry.delays[n] \in {2 * retry.delays[n - 1], MaxDelay}

\* three attempts with a base of 100 ms and a maximum of 150 ms: the call slept 100 ms,
\* then the capped 150 ms
C28_Witness ==
    /\ retry.pc = "thrown"
    /\ retry.base = 100
    /\ retry.max = 150
    /\ retry.delays = <<100, 150>>

\* C30: in every state inserted + skippedExisting + invalid is at most parsed; each
\* dispatched record is counted in at most one of the three (the counters count the
\* tasks that ended inserted, skipped and invalid, and parsed the tasks dispatched); and
\* when scrapeChannel resolves, parsed equals the sum of the three and the parsed count
\* it returns.
C30_StatsConserved ==
    /\ stats.inserted + stats.skippedExisting + stats.invalid <= stats.parsed
    /\ stats.parsed = Len(tasks)
    /\ stats.inserted = Count({"inserted"})
    /\ stats.skippedExisting = Count({"skipped", "conflict"})
    /\ stats.invalid = Count({"invalid"})
    /\ promise.state = "resolved" =>
          /\ stats.parsed = stats.inserted + stats.skippedExisting + stats.invalid
          /\ stats.parsed = promise.n

\* the run resolved with 2 after a record was stored and a record without id was counted
\* invalid
C30_Witness ==
    /\ promise = [state |-> "resolved", kind |-> "count", n |-> 2]
    /\ stats = [parsed |-> 2, inserted |-> 1, skippedExisting |-> 0, invalid |-> 1]

\* the video rows the run added to the store
RowsAdded == {v \in videos : v.id \notin storedAtStart}

\* C32 as claimed: when a run ends, stats.inserted equals the number of video rows the
\* run added to the store, also when a video insert was retried after a transient error
\* that struck after the store had committed the row.
C32_Claimed ==
    (mainPc = "exited" /\ promise.state = "resolved") =>
       stats.inserted = Cardinality(RowsAdded)

\* C33 as claimed: all video rows inserted during one run reference the same channel,
\* for every interleaving of the persistence tasks, also in a run with no pre-loaded
\* channel whose records embed different channel URLs.
C33_Claimed ==
    \A v \in RowsAdded : \A w \in RowsAdded : v.channelId = w.channelId

\* the tasks that the step sends to the store for the insert of their video: those that
\* are at the insert after the step and were not before it
SentToStore ==
    {i \in 1..Len(tasks') :
        /\ tasks'[i].pc = "insert"
        /\ i > Len(tasks) \/ tasks[i].pc # "insert"}

\* C34: the known-id set only grows during a run; in every state each id in it is the id
\* of a video row of the store; and a record whose id is in the set when the record is
\* checked is not sent to the store for insertion (it is counted as skipped).
C34_KnownIds ==
    /\ [](knownIds \subseteq {v.id : v \in videos})
    /\ [][/\ run' = run => knownIds \subseteq knownIds'
          /\ \A i \in SentToStore : IdOf(tasks'[i].atom) \notin knownIds
          /\ \A i \in 1..Len(tasks') :
                (/\ run' = run
                 /\ IdOf(tasks'[i].atom) \in knownIds
                 /\ i > Len(tasks) \/ tasks[i].pc = "channel") =>
                   tasks'[i].pc \in {"skipped", "failed", "channel"}]_vars

\* the second run found b in the store, holds it as known, and skipped a record of b
\* without an insert
C34_Witness ==
    /\ run = 2
    /\ "b" \in storedAtStart
    /\ knownIds = {"b"}
    /\ \E i \in 1..Len(tasks) : tasks[i].pc = "skipped" /\ IdOf(tasks[i].atom) = "b"

\* the run has its terminal outcome: scrapeChannel resolved (SUCCEEDED) or rejected
\* (FAILED)
Terminal == promise.state \in {"resolved", "rejected"}

\* C35 as claimed: every run that started reaches a terminal outcome, SUCCEEDED or
\* FAILED, in the end, and the outcome reached does not change afterwards.
C35_Claimed ==
    /\ (mainPc = "scrape") ~> Terminal
    /\ [][(Terminal /\ run' = run) => promise' = promise]_vars

\* C36 as claimed: the classification of an error terminates whatever the shape of its
\* cause chain, also for a chain that loops back through more than one link
\* (a.cause = b, b.cause = a): the recursion never runs until the call stack is full.
C36_Claimed == classify.pc # "overflow"

MainEnded == mainRun.pc \in {"ended", "crashed"}

\* C24: on every path by which main ends after the dedup archive was created or the
\* store was first queried (success, scrape failure, or a failure of a step before the
\* scrape starts), the removal of the temporary archive and the teardown of the store
\* connections are both attempted, and a failure of either is only warned about: it
\* changes neither the outcome of the run nor the attempt of the other.
C24_Claimed ==
    (MainEnded /\ (mainRun.tempDir \/ mainRun.handle \/ mainRun.storeQueried)) =>
       /\ mainRun.teardownAttempted
       /\ (mainRun.tempDir \/ mainRun.handle) => mainRun.removalAttempted
       /\ mainRun.exitCode = 1 <=> mainRun.error # "none"

\* C25: normalizeChannelUrl is idempotent: for every URL-like input x, paths that end
\* in repeated section segments such as /videos/videos included,
\* normalizeChannelUrl(normalizeChannelUrl(x)) equals normalizeChannelUrl(x).
C25_Claimed == urlRun.pc = "done" => urlRun.twice = urlRun.once

\* the lines of an output: the texts between its newlines, the last one being the text
\* after the last newline
RECURSIVE LinesOf(_, _)
LinesOf(output, line) ==
    IF output = <<>> THEN <<line>>
    ELSE IF Head(output) = "\n" THEN <<line>> \o LinesOf(Tail(output), <<>>)
    ELSE LinesOf(Tail(output), Append(line, Head(output)))

NonBlankLine(line) == \E i \in 1..Len(line) : line[i] # " "
TerminatedLines(output) == SubSeq(LinesOf(output, <<>>), 1, Len(LinesOf(output, <<>>)) - 1)

NotSpace(atom) == atom # " "

\* the records of a sequence of lines: one per line that is not blank
RecordsOf(lines) ==
    LET nonBlank == SelectSeq(lines, NonBlankLine)
    IN  [i \in 1..Len(nonBlank) |-> TextOf(SelectSeq(nonBlank[i], NotSpace))]

\* every line of the output is blank or the text of one record
WellFormed(output) ==
    \A k \in 1..Len(RecordsOf(LinesOf(output, <<>>))) :
       JsonOk(RecordsOf(LinesOf(output, <<>>))[k])

TaskAtoms == [i \in 1..Len(tasks) |-> <<tasks[i].atom>>]

C27_ChunkIndependence ==
    (emitted.on /\ closePc # "none" /\ WellFormed(emitted.atoms)) =>
       /\ TaskAtoms = RecordsOf(LinesOf(emitted.atoms, <<>>))
       /\ Len(tasks) = Cardinality({k \in 1..Len(LinesOf(emitted.atoms, <<>>)) :
                                       NonBlankLine(LinesOf(emitted.atoms, <<>>)[k])})

\* the output ra, newline, a line of white space, and rb without newline, came in three
\* chunks of which the last began in the middle of the text of rb, and two records were
\* dispatched
C27_Witness ==
    /\ emitted = [on |-> TRUE,
                  atoms |-> <<"ra", "\n", " ", "\n", "rb.head", "rb.tail">>,
                  chunks |-> <<2, 3, 1>>]
    /\ closePc # "none"
    /\ TaskAtoms = << <<"ra">>, <<"rb">> >>

====
